---- MODULE Spec2Model ----
(***************************************************************************)
(* A model of the search-and-extraction pipeline of main.py: the endpoint  *)
(* fallback of fetch_results / fetch_html_results, the tag-stream parser   *)
(* TPBHTMLParser, filter_and_sort and build_magnet.                        *)
(*                                                                         *)
(* Text is modelled as a sequence of one-character strings, so that        *)
(* prefix tests, substring tests, case folding and percent-encoding are    *)
(* computed and not assumed.                                               *)
(***************************************************************************)
EXTENDS Integers, Sequences, FiniteSets, TLC

VARIABLES
    \* ---- fetch_results / fetch_html_results (one search) ----
    pc,               \* "idle", "json" (loop of fetch_results), "html" (loop of fetch_html_results), "done"
    category_key,     \* the category_key argument
    ep,               \* index of the endpoint of the next request
    ci,               \* index of the category code of the next request
    last_error,       \* last_error of fetch_results
    html_last_error,  \* last_error of fetch_html_results
    result,           \* what fetch_results returned or raised
    requests,         \* history: the HTTP requests issued so far, in order
    erred,            \* history: the <<fetcher, endpoint index>> pairs on which an attempt ended in an error
    yielded,          \* history: the attempt whose response held rows, if any
    latest,           \* history: the error of the latest attempt that ended in one, if any
    inflight,         \* the requests sent and not yet completed
    \* ---- TPBHTMLParser ----
    parser,           \* the parser object
    doc,              \* the events of the document that are still to be fed
    given,            \* the values the document was built from
    closed,           \* history: what the latest event, if a row end, found and did
    raised,           \* the exception that left parser.feed, "" while there is none
    \* ---- filter_and_sort ----
    raw,              \* the rows argument
    resolution_var,   \* the resolution argument
    results,          \* what filter_and_sort returned or raised
    \* ---- build_magnet ----
    bm_info_hash,     \* the info_hash argument
    bm_name,          \* the name argument
    magnet_var,       \* the magnet link it returned
    \* ---- parse_btih_from_magnet / parse_size_bytes called on their own ----
    btih_call,        \* the magnet argument, with the parts it was put together from
    btih_ret,         \* what parse_btih_from_magnet returned
    size_call,        \* the text argument, with the parts it was put together from
    size_ret,         \* what parse_size_bytes returned or raised
    \* ---- create_app: the window ----
    table,            \* the rows of the result table, in order
    status_var,       \* the status line
    messagebox,       \* the title of the message box shown last, if any
    searches          \* history: the number of searches run so far

searchVars == <<pc, category_key, ep, ci, last_error, html_last_error, result,
                requests, erred, yielded, latest, inflight>>

parserVars == <<parser, doc, given, closed, raised>>

filterVars == <<raw, resolution_var, results>>

magnetVars == <<bm_info_hash, bm_name, magnet_var>>

pureVars == <<btih_call, btih_ret, size_call, size_ret>>

appVars == <<table, status_var, messagebox, searches>>

vars == <<searchVars, parserVars, filterVars, magnetVars, pureVars, appVars>>

None == [kind |-> "None"]

(***************************************************************************)
(* Text: a str is a sequence of one-character strings.                     *)
(***************************************************************************)
\* the printable ASCII characters, in code order from 32 to 126 (the grave
\* accent, code 96, is written "GRAVE")
Ascii ==
    <<" ", "!", "\"", "#", "$", "%", "&", "'", "(", ")", "*", "+", ",", "-",
    ".", "/", "0", "1", "2", "3", "4", "5", "6", "7", "8", "9", ":", ";",
    "<", "=", ">", "?", "@", "A", "B", "C", "D", "E", "F", "G", "H", "I",
    "J", "K", "L", "M", "N", "O", "P", "Q", "R", "S", "T", "U", "V", "W",
    "X", "Y", "Z", "[", "\\", "]", "^", "_", "GRAVE", "a", "b", "c", "d", "e",
    "f", "g", "h", "i", "j", "k", "l", "m", "n", "o", "p", "q", "r", "s",
    "t", "u", "v", "w", "x", "y", "z", "{", "|", "}", "~">>

CodeOf(c) == IF \E i \in 1..Len(Ascii) : Ascii[i] = c
             THEN (CHOOSE i \in 1..Len(Ascii) : Ascii[i] = c) + 31
             ELSE 255

\* a character outside printable ASCII stands as itself
CharOf(n) == IF n \in 32..126 THEN Ascii[n - 31] ELSE "?"

Range(s) == {s[i] : i \in 1..Len(s)}

DigitChars == Range(SubSeq(Ascii, 17, 26))

UpperChars == Range(SubSeq(Ascii, 34, 59))

LowerChars == Range(SubSeq(Ascii, 66, 91))

Letters == UpperChars \cup LowerChars

Whitespace == {" ", "\t", "\n", "\r"}

\* str.startswith
StartsWith(s, p) == Len(p) <= Len(s) /\ SubSeq(s, 1, Len(p)) = p

\* `sub in s`
Contains(s, sub) ==
    \E i \in 1..(Len(s) - Len(sub) + 1) : SubSeq(s, i, i + Len(sub) - 1) = sub

\* str.lower
Lower(s) == [i \in 1..Len(s) |->
                IF s[i] \in UpperChars THEN CharOf(CodeOf(s[i]) + 32) ELSE s[i]]

RECURSIVE LStrip(_)
LStrip(s) == IF s # <<>> /\ Head(s) \in Whitespace THEN LStrip(Tail(s)) ELSE s

RECURSIVE RStrip(_)
RStrip(s) == IF s # <<>> /\ s[Len(s)] \in Whitespace
             THEN RStrip(SubSeq(s, 1, Len(s) - 1))
             ELSE s

\* str.strip
Strip(s) == RStrip(LStrip(s))

\* str.isdigit
IsDigit(s) == s # <<>> /\ \A i \in 1..Len(s) : s[i] \in DigitChars

\* a character str.isdigit counts as a digit and int() does not accept:
\* SUPERSCRIPT TWO, written "SUP2"
OtherDigits == {"SUP2"}

\* str.isdigit
StrIsDigit(s) == s # <<>> /\ \A i \in 1..Len(s) : s[i] \in DigitChars \cup OtherDigits

RECURSIVE Pow(_, _)
Pow(b, n) == IF n = 0 THEN 1 ELSE b * Pow(b, n - 1)

\* int(s) of a string of decimal digits
RECURSIVE ToInt(_)
ToInt(s) == IF s = <<>> THEN 0
            ELSE 10 * ToInt(SubSeq(s, 1, Len(s) - 1)) + (CodeOf(s[Len(s)]) - 48)

\* the index of the first occurrence of character c in s at or after i, or Len(s) + 1
RECURSIVE IndexFrom(_, _, _)
IndexFrom(s, c, i) == IF i > Len(s) \/ s[i] = c THEN i ELSE IndexFrom(s, c, i + 1)

\* the index after the longest run of characters of `class` that starts at i
RECURSIVE SpanEnd(_, _, _)
SpanEnd(s, i, class) ==
    IF i <= Len(s) /\ s[i] \in class THEN SpanEnd(s, i + 1, class) ELSE i

Some(v) == [kind |-> "Some", v |-> v]

\* Op(v), with v evaluated once however often Op refers to it
Once(v, Op(_)) == CHOOSE r \in {Op(x) : x \in {v}} : TRUE

(***************************************************************************)
(* parse_size_bytes                                                        *)
(***************************************************************************)
SizeWord == <<"S", "i", "z", "e", " ">>

(***************************************************************************)
(* A byte count can exceed the model checker's integers (2 GiB is 2^31),   *)
(* so it is held as its digits in base 1024, most significant first and    *)
(* without leading zeros: 2 GiB is <<2, 0, 0, 0>>, 0 is <<>>.              *)
(***************************************************************************)
Base == 1024

RECURSIVE BigOfInt(_)
BigOfInt(n) == IF n = 0 THEN <<>> ELSE Append(BigOfInt(n \div Base), n % Base)

RECURSIVE BigNorm(_)
BigNorm(b) == IF b # <<>> /\ Head(b) = 0 THEN BigNorm(Tail(b)) ELSE b

\* b * 1024^k
BigShift(b, k) == IF b = <<>> THEN <<>> ELSE b \o [i \in 1..k |-> 0]

\* the digits of b \div d, by long division with running remainder r
RECURSIVE BigDivDigits(_, _, _)
BigDivDigits(b, d, r) ==
    IF b = <<>> THEN <<>>
    ELSE <<(r * Base + Head(b)) \div d>>
         \o BigDivDigits(Tail(b), d, (r * Base + Head(b)) % d)

BigDiv(b, d) == BigNorm(BigDivDigits(b, d, 0))

\* the scale table, as the exponent k of the scale 1024^k; a unit that is not
\* in it has scale 1
Scale(unit) ==
    CASE unit = <<"b">> -> 0
      [] unit = <<"k", "i", "b">> -> 1
      [] unit = <<"k", "b">> -> 1
      [] unit = <<"m", "i", "b">> -> 2
      [] unit = <<"m", "b">> -> 2
      [] unit = <<"g", "i", "b">> -> 3
      [] unit = <<"g", "b">> -> 3
      [] unit = <<"t", "i", "b">> -> 4
      [] unit = <<"t", "b">> -> 4
      [] OTHER -> 0

\* the match of  Size ([0-9]+(?:\.[0-9]+)?)\s*([A-Za-z]+)  that starts at i, or
\* None.  Every quantifier is greedy and giving characters back never helps:
\* after a shorter run of digits comes a digit, after a dropped fraction a ".".
SizeMatchAt(s, i) ==
    IF ~(i + 4 <= Len(s) /\ SubSeq(s, i, i + 4) = SizeWord) THEN None
    ELSE LET d0 == i + 5
             d1 == SpanEnd(s, d0, DigitChars)
             f1 == IF d1 <= Len(s) /\ s[d1] = "."
                   THEN SpanEnd(s, d1 + 1, DigitChars)
                   ELSE d1
             \* the optional fraction matches only with a digit after the "."
             n1 == IF f1 > d1 + 1 THEN f1 ELSE d1
             w1 == SpanEnd(s, n1, Whitespace)
             u1 == SpanEnd(s, w1, Letters)
         IN  IF d1 = d0 \/ u1 = w1 THEN None
             ELSE [kind  |-> "Match",
                   whole |-> SubSeq(s, d0, d1 - 1),
                   frac  |-> IF n1 > d1 THEN SubSeq(s, d1 + 1, n1 - 1) ELSE <<>>,
                   unit  |-> SubSeq(s, w1, u1 - 1)]

\* re.search: the leftmost match
RECURSIVE SizeSearch(_, _)
SizeSearch(s, i) ==
    IF i > Len(s) THEN None
    ELSE LET m == SizeMatchAt(s, i) IN
         IF m # None THEN m ELSE SizeSearch(s, i + 1)

\* b * m + carry, for small m and carry
RECURSIVE BigMulAdd(_, _, _)
BigMulAdd(b, m, carry) ==
    IF b = <<>> THEN BigOfInt(carry)
    ELSE LET t == b[Len(b)] * m + carry IN
         Append(BigMulAdd(SubSeq(b, 1, Len(b) - 1), m, t \div Base), t % Base)

\* b % d, by long division with running remainder r
RECURSIVE BigRem(_, _, _)
BigRem(b, d, r) ==
    IF b = <<>> THEN r ELSE BigRem(Tail(b), d, (r * Base + Head(b)) % d)

\* the number written by a string of decimal digits
RECURSIVE BigOfDecimal(_)
BigOfDecimal(s) ==
    IF s = <<>> THEN <<>>
    ELSE BigNorm(BigMulAdd(BigOfDecimal(SubSeq(s, 1, Len(s) - 1)), 10,
                           CodeOf(s[Len(s)]) - 48))

\* the number of binary digits of b
BitLen(b) ==
    IF b = <<>> THEN 0
    ELSE 10 * (Len(b) - 1)
         + (CHOOSE k \in 1..10 : Pow(2, k - 1) <= Head(b) /\ Head(b) < Pow(2, k))

\* b * 2^bits
Shl(b, bits) == BigShift(BigNorm(BigMulAdd(b, Pow(2, bits % 10), 0)), bits \div 10)

\* b \div 2^bits
Shr(b, bits) ==
    IF bits \div 10 >= Len(b) THEN <<>>
    ELSE BigDiv(SubSeq(b, 1, Len(b) - (bits \div 10)), Pow(2, bits % 10))

IsOdd(b) == b # <<>> /\ b[Len(b)] % 2 = 1

(***************************************************************************)
(* A float is m * 2^e with m below 2^53 (binary64).  float(text) is the    *)
(* float nearest to the decimal number n / 10^d, a tie going to the even   *)
(* m: q2 holds that number scaled to 54 binary digits and cut; its last    *)
(* digit and what was cut decide the rounding.                             *)
(***************************************************************************)
FloatOf(n, d) ==
    IF n = <<>> THEN [m |-> <<>>, e |-> 0]
    ELSE LET t == Pow(10, d)
             Cut(s) == IF s >= 0 THEN Shl(n, s) ELSE Shr(n, 0 - s)
             Scaled(s) == BigDiv(Cut(s), t)
             Inexact(s) == \/ BigRem(Cut(s), t, 0) # 0
                           \/ s < 0 /\ Shl(Cut(s), 0 - s) # n
             s0 == 54 - BitLen(n) + BitLen(BigOfInt(t))
             s  == IF BitLen(Scaled(s0)) > 54 THEN s0 - 1 ELSE s0
             q2 == Scaled(s)
             m0 == Shr(q2, 1)
             up == IsOdd(q2) /\ (Inexact(s) \/ IsOdd(m0))
         IN  [m |-> IF up THEN BigNorm(BigMulAdd(m0, 1, 1)) ELSE m0, e |-> 1 - s]

\* the largest binary exponent of a finite float: from 2^1024 on it is inf
MaxExp == 1024

\* what parse_size_bytes gives when int() raises OverflowError
OverflowError == <<0 - 1>>

\* int(f * 2^bits): the product is exact, or inf, and int(inf) raises
IntOfProduct(f, bits) ==
    IF BitLen(f.m) + f.e + bits > MaxExp THEN OverflowError
    ELSE IF f.e + bits >= 0 THEN Shl(f.m, f.e + bits)
    ELSE Shr(f.m, 0 - (f.e + bits))

\* int(float(match.group(1)) * scale), and 0 without a match
parse_size_bytes(text) ==
    Once(SizeSearch(text, 1), LAMBDA m :
        IF m = None THEN <<>>
        ELSE Once(BigOfDecimal(m.whole \o m.frac), LAMBDA value :
             Once(FloatOf(value, Len(m.frac)), LAMBDA f :
                  IntOfProduct(f, 10 * Scale(Lower(m.unit))))))

(***************************************************************************)
(* parse_btih_from_magnet                                                  *)
(***************************************************************************)
MagnetScheme == <<"m", "a", "g", "n", "e", "t", ":", "?">>

BtihPrefix == <<"u", "r", "n", ":", "b", "t", "i", "h", ":">>

HexVal(c) == IF c \in DigitChars THEN CodeOf(c) - 48
             ELSE IF CodeOf(c) \in 65..70 THEN CodeOf(c) - 55
             ELSE IF CodeOf(c) \in 97..102 THEN CodeOf(c) - 87
             ELSE -1

\* urllib.parse.unquote after replace("+", " "), as parse_qs applies it
RECURSIVE Unquote(_)
Unquote(s) ==
    IF s = <<>> THEN <<>>
    ELSE IF s[1] = "%" /\ Len(s) >= 3 /\ HexVal(s[2]) >= 0 /\ HexVal(s[3]) >= 0
    THEN <<CharOf(16 * HexVal(s[2]) + HexVal(s[3]))>> \o Unquote(SubSeq(s, 4, Len(s)))
    ELSE <<IF s[1] = "+" THEN " " ELSE s[1]>> \o Unquote(Tail(s))

\* str.split(sep) on a one-character separator
RECURSIVE Split(_, _)
Split(s, sep) ==
    LET i == IndexFrom(s, sep, 1) IN
    IF i > Len(s) THEN <<s>>
    ELSE <<SubSeq(s, 1, i - 1)>> \o Split(SubSeq(s, i + 1, Len(s)), sep)

\* urlparse(magnet).query: what follows the first "?", without the fragment
UrlQuery(url) ==
    LET noFrag == SubSeq(url, 1, IndexFrom(url, "#", 1) - 1)
        q      == IndexFrom(noFrag, "?", 1)
    IN  SubSeq(noFrag, q + 1, Len(noFrag))

\* parse_qs(query).get(name) or []: the decoded values of the fields called
\* `name`, in order; a field without "=" or with a blank value is skipped
RECURSIVE FieldValues(_, _)
FieldValues(fields, name) ==
    IF fields = <<>> THEN <<>>
    ELSE LET f  == Head(fields)
             eq == IndexFrom(f, "=", 1)
         IN  (IF eq <= Len(f) /\ eq < Len(f)
                 /\ Unquote(SubSeq(f, 1, eq - 1)) = name
              THEN <<Unquote(SubSeq(f, eq + 1, Len(f)))>>
              ELSE <<>>)
             \o FieldValues(Tail(fields), name)

\* mutant: the first xt value is taken whatever its namespace
FirstBtih_Mut(xt_values) ==
    IF xt_values = <<>> THEN None
    ELSE Some(SubSeq(Head(xt_values), Len(BtihPrefix) + 1, Len(Head(xt_values))))

RECURSIVE FirstBtih(_)
FirstBtih(xt_values) ==
    IF xt_values = <<>> THEN None
    ELSE IF StartsWith(Head(xt_values), BtihPrefix)
    THEN \* xt.split(":", 2)[-1]
         Some(SubSeq(Head(xt_values), Len(BtihPrefix) + 1, Len(Head(xt_values))))
    ELSE FirstBtih(Tail(xt_values))

parse_btih_from_magnet(magnet) ==
    IF ~StartsWith(magnet, MagnetScheme) THEN None
    ELSE FirstBtih(FieldValues(Split(UrlQuery(magnet), "&"), <<"x", "t">>))

(***************************************************************************)
(* TPBHTMLParser: the state of the parser object and its three handlers.   *)
(***************************************************************************)
\* self.current after a reset
EmptyCurrent == [name |-> None, magnet |-> None, size |-> <<>>]

\* TPBHTMLParser(): __init__ and _reset_row
NewParser ==
    [rows |-> <<>>,
     in_tr |-> FALSE,
     in_det_name |-> FALSE,
     in_title_anchor |-> FALSE,
     in_det_desc |-> FALSE,
     in_align_right |-> FALSE,
     align_right_values |-> <<>>,
     current |-> EmptyCurrent]

_reset_row(p) ==
    [p EXCEPT !.in_tr = FALSE,
              !.in_det_name = FALSE,
              !.in_title_anchor = FALSE,
              !.in_det_desc = FALSE,
              !.in_align_right = FALSE,
              !.align_right_values = <<>>,
              !.current = EmptyCurrent]

\* dict(attrs): the attributes the handlers look at; "" and <<>> stand for an
\* attribute that is not there
Attrs(class, align, href) == [class |-> class, align |-> align, href |-> href]

NoAttrs == Attrs("", "", <<>>)

\* the value None of an attribute written without a value, as in <a href>
NoValue == <<"None">>

MagnetHrefPrefix == <<"m", "a", "g", "n", "e", "t", ":", "?", "x", "t", "=">>

\* `if self.current.get("name") and info_hash`
RowComplete(name, info_hash) ==
    /\ name # None /\ name.v # <<>>
    /\ info_hash # None /\ info_hash.v # <<>>

\* mutant: the columns are read in the other order
Seeders_Mut(values) == IF Len(values) > 1 THEN values[2] ELSE 0

\* `int(self.align_right_values[0]) if len(self.align_right_values) > 0 else 0`
Seeders(values) == IF Len(values) > 0 THEN values[1] ELSE 0

\* mutant: leechers read from the first value
Leechers_Mut(values) == IF Len(values) > 0 THEN values[1] ELSE 0

\* `int(self.align_right_values[1]) if len(self.align_right_values) > 1 else 0`
Leechers(values) == IF Len(values) > 1 THEN values[2] ELSE 0

\* mutant: the row start leaves the accumulators as they are
StartRow_Mut(p) == [p EXCEPT !.in_tr = TRUE]

\* the branch `if tag == "tr"` of handle_starttag
StartRow(p) ==
    [p EXCEPT !.in_tr = TRUE,
              !.align_right_values = <<>>,
              !.current = EmptyCurrent]

handle_starttag(p, tag, attrs) ==
    IF tag = "tr" THEN StartRow(p)
    ELSE IF ~p.in_tr THEN p
    ELSE LET p1 == IF tag = "div" /\ attrs.class = "detName"
                   THEN [p EXCEPT !.in_det_name = TRUE] ELSE p
             p2 == IF tag = "font" /\ attrs.class = "detDesc"
                   THEN [p1 EXCEPT !.in_det_desc = TRUE] ELSE p1
             p3 == IF tag = "a" /\ attrs.href # NoValue
                   THEN IF StartsWith(attrs.href, MagnetHrefPrefix)
                        THEN [p2 EXCEPT !.current.magnet = Some(attrs.href)]
                        ELSE IF p2.in_det_name
                        THEN [p2 EXCEPT !.in_title_anchor = TRUE]
                        ELSE p2
                   ELSE p2
         IN  IF tag = "a" /\ attrs.href = NoValue THEN p2
             ELSE IF tag = "td" /\ attrs.align = "right"
             THEN [p3 EXCEPT !.in_align_right = TRUE] ELSE p3

handle_endtag(p, tag) ==
    LET info_hash == parse_btih_from_magnet(
                        IF p.current.magnet = None THEN <<>> ELSE p.current.magnet.v)
        p1 == IF tag = "tr" /\ p.in_tr
              THEN _reset_row(
                     IF RowComplete(p.current.name, info_hash)
                     THEN [p EXCEPT !.rows = Append(@,
                              [name      |-> p.current.name.v,
                               info_hash |-> info_hash.v,
                               seeders   |-> Seeders(p.align_right_values),
                               leechers  |-> Leechers(p.align_right_values),
                               size      |-> p.current.size])]
                     ELSE p)
              ELSE p
        p2 == IF tag = "div" THEN [p1 EXCEPT !.in_det_name = FALSE] ELSE p1
        p3 == IF tag = "a" THEN [p2 EXCEPT !.in_title_anchor = FALSE] ELSE p2
        p4 == IF tag = "font" THEN [p3 EXCEPT !.in_det_desc = FALSE] ELSE p3
    IN  IF tag = "td" /\ p4.in_align_right
        THEN [p4 EXCEPT !.in_align_right = FALSE] ELSE p4

handle_data(p, data) ==
    Once(Strip(data), LAMBDA text :
    IF ~p.in_tr \/ text = <<>> THEN p
    ELSE LET p1 == IF p.in_title_anchor /\ p.in_det_name
                   THEN [p EXCEPT !.current.name = Some(text)] ELSE p
         IN  Once(IF p.in_det_desc THEN parse_size_bytes(text) ELSE <<>>, LAMBDA size_bytes :
             LET p2 == IF p1.in_det_desc /\ size_bytes # <<>> /\ size_bytes # OverflowError
                       THEN [p1 EXCEPT !.current.size = size_bytes] ELSE p1
             IN  IF p1.in_det_desc /\ size_bytes = OverflowError THEN p1
                 ELSE IF p2.in_align_right /\ StrIsDigit(text) /\ IsDigit(text)
                 THEN [p2 EXCEPT !.align_right_values = Append(@, ToInt(text))]
                 ELSE p2))

\* the exception that leaves handle_starttag, "" if none:
\* href.startswith where href is None
starttag_raises(p, tag, attrs) ==
    IF tag # "tr" /\ p.in_tr /\ tag = "a" /\ attrs.href = NoValue
    THEN "AttributeError" ELSE ""

\* the exception that leaves handle_data, "" if none: int(inf) in
\* parse_size_bytes, and int(text) of a text that isdigit accepts and int
\* does not
data_raises(p, data) ==
    LET text == Strip(data) IN
    IF ~p.in_tr \/ text = <<>> THEN ""
    ELSE IF p.in_det_desc /\ parse_size_bytes(text) = OverflowError THEN "OverflowError"
    ELSE IF p.in_align_right /\ StrIsDigit(text) /\ ~IsDigit(text) THEN "ValueError"
    ELSE ""

\* the tag events and text events the tokenizer hands to the handlers
StartTag(tag, attrs) == [type |-> "start", tag |-> tag, attrs |-> attrs, data |-> <<>>]

EndTag(tag) == [type |-> "end", tag |-> tag, attrs |-> NoAttrs, data |-> <<>>]

Data(data) == [type |-> "data", tag |-> "", attrs |-> NoAttrs, data |-> data]

\* HTMLParser.feed dispatching one event
Dispatch(p, ev) ==
    CASE ev.type = "start" -> handle_starttag(p, ev.tag, ev.attrs)
      [] ev.type = "end"   -> handle_endtag(p, ev.tag)
      [] ev.type = "data"  -> handle_data(p, ev.data)

\* the exception that leaves the handler of the event, "" if none
Raises(p, ev) ==
    CASE ev.type = "start" -> starttag_raises(p, ev.tag, ev.attrs)
      [] ev.type = "end"   -> ""
      [] ev.type = "data"  -> data_raises(p, ev.data)

\* history: what a row-end event of an open row found and did; q is the
\* parser after the event
Closing(p, ev, q) ==
    IF ev.type = "end" /\ ev.tag = "tr" /\ p.in_tr
    THEN [kind    |-> "Closed",
          name    |-> p.current.name,
          magnet  |-> p.current.magnet,
          size    |-> p.current.size,
          values  |-> p.align_right_values,
          before  |-> p.rows,
          emitted |-> Len(q.rows) > Len(p.rows)]
    ELSE None

(***************************************************************************)
(* The inputs of the parser.                                               *)
(***************************************************************************)
Hash1 ==
    <<"A", "1", "B", "2", "C", "3", "D", "4", "E", "5", "F", "6", "0", "7",
    "1", "8", "2", "9", "3", "A", "4", "B", "5", "C", "6", "D", "7", "E",
    "8", "F", "9", "0", "1", "2", "3", "4", "5", "6", "7", "8">>

Hash2 ==
    <<"F", "F", "E", "E", "D", "D", "C", "C", "B", "B", "A", "A", "9", "9",
    "8", "8", "7", "7", "6", "6", "5", "5", "4", "4", "3", "3", "2", "2",
    "1", "1", "0", "0", "A", "A", "B", "B", "C", "C", "D", "D">>

MagnetPlain == MagnetScheme \o <<"x", "t", "=">> \o BtihPrefix \o Hash1

MagnetWithParams ==
    MagnetScheme \o <<"x", "t", "=">> \o BtihPrefix \o Hash2
    \o <<"&", "d", "n", "=", "E", "x", "&", "t", "r", "=", "u", "d", "p", "%", "3", "A", "%", "2", "F", "%", "2", "F", "t", ".", "o", "r", "g", "%", "3", "A", "1", "3", "3", "7">>

\* a magnet link with a short info-hash (the parser does not look at its length)
HashShort == <<"C", "0", "F", "F", "E", "E">>

MagnetShort == MagnetScheme \o <<"x", "t", "=">> \o BtihPrefix \o HashShort

\* a magnet link of another URN namespace
MagnetSha1 == MagnetScheme \o <<"x", "t", "=", "u", "r", "n", ":", "s", "h", "a", "1", ":", "X", "Y", "Z">>

\* a magnet link whose info-hash is empty
MagnetEmptyBtih == MagnetScheme \o <<"x", "t", "=">> \o BtihPrefix

\* a magnet link whose first parameter is not xt
MagnetDnFirst == MagnetScheme \o <<"d", "n", "=", "E", "x", "&", "x", "t", "=">> \o BtihPrefix \o HashShort

TorrentHref == <<"/", "t", "o", "r", "r", "e", "n", "t", "/", "1">>

TitleText == <<"E", "x", "a", "m", "p", "l", "e", ".", "M", "o", "v", "i", "e", ".", "1", "0", "8", "0", "p">>

PaddedText == <<"\n", " ", "O", "t", "h", "e", "r", ".", "7", "2", "0", "p", " ", "\n">>

SizeText == <<"S", "i", "z", "e", " ", "2", " ", "G", "i", "B">>

DescText == <<"U", "p", "l", "o", "a", "d", "e", "d", " ", "0", "3", "-", "1", "2", ",", " ", "S", "i", "z", "e", " ", "2", " ", "G", "i", "B", ",", " ", "U", "L", "e", "d", " ", "b", "y", " ", "x">>

BlankText == <<" ", "\n", " ">>

SeedText == <<"1", "2", "0">>

LeechText == <<"5">>

(***************************************************************************)
(* filter_and_sort.  A raw row is a dict; the value under a key is tagged  *)
(* with its type, Missing when the key is not there: n holds an int, s the *)
(* characters of a str, b the base-1024 digits of an int too large for the *)
(* model checker.  The field t of a row is the type of the element of the  *)
(* list: "dict", or another type, which has no get.                        *)
(***************************************************************************)
Missing == [t |-> "missing", n |-> 0, s |-> <<>>, b |-> <<>>]

NoneV == [t |-> "none", n |-> 0, s |-> <<>>, b |-> <<>>]

IntV(n) == [t |-> "int", n |-> n, s |-> <<>>, b |-> <<>>]

BigV(b) == [t |-> "big", n |-> 0, s |-> <<>>, b |-> b]

StrV(s) == [t |-> "str", n |-> 0, s |-> s, b |-> <<>>]

\* the exception a conversion raises
RaiseV(exc) == [t |-> "raise", n |-> 0, s |-> <<exc>>, b |-> <<>>]

\* row.get(key, default)
Get(row, key, default) == IF row[key].t = "missing" THEN default ELSE row[key]

\* `not v`
Falsy(v) ==
    \/ v.t = "none"
    \/ v.t = "int" /\ v.n = 0
    \/ v.t = "big" /\ v.b = <<>>
    \/ v.t = "str" /\ v.s = <<>>

\* int(v): the int, or the exception int() raises
IntOf(v) ==
    CASE v.t = "int" -> v
      [] v.t = "big" -> v
      [] v.t = "str" ->
            LET s == Strip(v.s)
                neg == s # <<>> /\ Head(s) = "-"
                digits == IF s # <<>> /\ Head(s) \in {"-", "+"} THEN Tail(s) ELSE s
            IN  IF IsDigit(digits)
                THEN IntV(IF neg THEN 0 - ToInt(digits) ELSE ToInt(digits))
                ELSE RaiseV("ValueError")
      [] OTHER -> RaiseV("TypeError")

\* mutant: only "2160" is looked for
Has4k_Mut(lower_name) == Contains(lower_name, <<"2", "1", "6", "0">>)

\* `"2160" in lower_name or "4k" in lower_name or "uhd" in lower_name`
Has4k(lower_name) ==
    \/ Contains(lower_name, <<"2", "1", "6", "0">>)
    \/ Contains(lower_name, <<"4", "k">>)
    \/ Contains(lower_name, <<"u", "h", "d">>)

\* one iteration of the loop of filter_and_sort: "skip" (continue), "keep"
\* (append) or "raise"
RowOutcome(row, resolution) ==
    LET name == Get(row, "name", StrV(<<>>)) IN
    IF row.t # "dict" THEN "raise"
    ELSE IF Falsy(name) THEN "skip"
    ELSE IF name.t # "str" THEN "raise"
    ELSE IF resolution = "1080" /\ ~Contains(Lower(name.s), <<"1", "0", "8", "0">>) THEN "skip"
    ELSE IF resolution = "4k" /\ ~Has4k(Lower(name.s)) THEN "skip"
    ELSE IF Falsy(Get(row, "info_hash", NoneV)) THEN "skip"
    ELSE IF \E key \in {"seeders", "leechers", "size"} :
                IntOf(Get(row, key, IntV(0))).t = "raise" THEN "raise"
    ELSE "keep"

\* the dict appended to `filtered`
Filtered(row) ==
    [name      |-> Get(row, "name", StrV(<<>>)).s,
     info_hash |-> Get(row, "info_hash", NoneV).s,
     seeders   |-> IntOf(Get(row, "seeders", IntV(0))).n,
     leechers  |-> IntOf(Get(row, "leechers", IntV(0))).n,
     size      |-> IntOf(Get(row, "size", IntV(0)))]

\* the elements of f whose seeders are in keys, those with the most seeders
\* first and those with as many in the order they have in f
RECURSIVE BySeedersDescending(_, _)
BySeedersDescending(f, keys) ==
    IF keys = {} THEN <<>>
    ELSE LET most == CHOOSE m \in keys : \A k \in keys : k <= m IN
         SelectSeq(f, LAMBDA r : r.seeders = most)
         \o BySeedersDescending(f, keys \ {most})

\* mutant: sorted ascending and then reversed, which reverses the ties
SortBySeeders_Mut(f) ==
    BySeedersDescending([i \in 1..Len(f) |-> f[Len(f) + 1 - i]],
                        {f[i].seeders : i \in 1..Len(f)})

\* filtered.sort(key=lambda r: r["seeders"], reverse=True): list.sort is
\* stable, also with reverse=True
SortBySeeders(f) == BySeedersDescending(f, {f[i].seeders : i \in 1..Len(f)})

\* filtered[:100]
MaxResults == 100

Truncate(f) == SubSeq(f, 1, IF Len(f) < MaxResults THEN Len(f) ELSE MaxResults)

filter_and_sort(rows, resolution) ==
    IF \E i \in 1..Len(rows) : RowOutcome(rows[i], resolution) = "raise"
    THEN [kind |-> "raise", rows |-> <<>>]
    ELSE LET kept == SelectSeq(rows, LAMBDA row : RowOutcome(row, resolution) = "keep")
             filtered == [i \in 1..Len(kept) |-> Filtered(kept[i])]
         IN  [kind |-> "ok", rows |-> Truncate(SortBySeeders(filtered))]

(***************************************************************************)
(* build_magnet                                                            *)
(***************************************************************************)
TRACKERS ==
    <<<<"u", "d", "p", ":", "/", "/", "t", "r", "a", "c", "k", "e", "r", ".",
      "o", "p", "e", "n", "t", "r", "a", "c", "k", "r", ".", "o", "r", "g",
      ":", "1", "3", "3", "7", "/", "a", "n", "n", "o", "u", "n", "c", "e">>,
      <<"u", "d", "p", ":", "/", "/", "o", "p", "e", "n", ".", "d", "e", "m",
      "o", "n", "i", "i", ".", "c", "o", "m", ":", "1", "3", "3", "7", "/",
      "a", "n", "n", "o", "u", "n", "c", "e">>,
      <<"u", "d", "p", ":", "/", "/", "t", "r", "a", "c", "k", "e", "r", ".",
      "c", "o", "p", "p", "e", "r", "s", "u", "r", "f", "e", "r", ".", "t",
      "k", ":", "6", "9", "6", "9", "/", "a", "n", "n", "o", "u", "n", "c",
      "e">>,
      <<"u", "d", "p", ":", "/", "/", "t", "r", "a", "c", "k", "e", "r", ".",
      "l", "e", "e", "c", "h", "e", "r", "s", "-", "p", "a", "r", "a", "d",
      "i", "s", "e", ".", "o", "r", "g", ":", "6", "9", "6", "9", "/", "a",
      "n", "n", "o", "u", "n", "c", "e">>>>

HexDigits == <<"0", "1", "2", "3", "4", "5", "6", "7", "8", "9", "A", "B", "C", "D", "E", "F">>

\* the characters urllib.parse.quote never encodes
AlwaysSafe == Letters \cup DigitChars \cup {"_", ".", "-", "~"}

\* urllib.parse.quote(s, safe): every other character becomes %XX
RECURSIVE Quote(_, _)
Quote(s, safe) ==
    IF s = <<>> THEN <<>>
    ELSE (IF Head(s) \in AlwaysSafe \cup safe
          THEN <<Head(s)>>
          ELSE <<"%", HexDigits[(CodeOf(Head(s)) \div 16) + 1],
                      HexDigits[(CodeOf(Head(s)) % 16) + 1]>>)
         \o Quote(Tail(s), safe)

\* mutant: the name is quoted like the trackers, with the default safe="/"
NameSafe_Mut == {"/"}

\* quote(name, safe=" ")
NameSafe == {" "}

\* quote(tr): the default safe="/"
TrackerSafe == {"/"}

\* "&".join(f"tr={quote(tr)}" for tr in TRACKERS)
RECURSIVE JoinTrackers(_)
JoinTrackers(trs) ==
    IF trs = <<>> THEN <<>>
    ELSE <<"t", "r", "=">> \o Quote(Head(trs), TrackerSafe)
         \o (IF Len(trs) > 1 THEN <<"&">> \o JoinTrackers(Tail(trs)) ELSE <<>>)

build_magnet(info_hash, name) ==
    <<"m", "a", "g", "n", "e", "t", ":", "?", "x", "t", "=">> \o BtihPrefix \o info_hash
    \o <<"&", "d", "n", "=">> \o Quote(name, NameSafe)
    \o <<"&">> \o JoinTrackers(TRACKERS)

(***************************************************************************)
(* human_size.  The number is a base-1024 digit sequence, so the unit is   *)
(* given by the number of digits and the division by 1024 is a shift.      *)
(***************************************************************************)
SizeUnitNames == <<"B", "KB", "MB", "GB", "TB", "PB">>

\* the decimal digits of a natural number
RECURSIVE Decimal(_)
Decimal(n) ==
    IF n < 10 THEN <<CharOf(CodeOf("0") + n)>>
    ELSE Append(Decimal(n \div 10), CharOf(CodeOf("0") + (n % 10)))

\* the base-1024 fraction f times m: the digit carried out and the digits left
RECURSIVE FracTimes(_, _)
FracTimes(f, m) ==
    IF f = <<>> THEN [carry |-> 0, digits |-> <<>>]
    ELSE LET r == FracTimes(Tail(f), m)
             v == Head(f) * m + r.carry
         IN  [carry |-> v \div Base, digits |-> <<v % Base>> \o r.digits]

\* the value of a short digit sequence
RECURSIVE BigToInt(_)
BigToInt(b) == IF b = <<>> THEN 0 ELSE BigToInt(SubSeq(b, 1, Len(b) - 1)) * Base + b[Len(b)]

\* f"{size:.1f} {unit}" for size = whole + frac: one decimal, the nearest,
\* and the even one of two that are as near
OneDecimal(whole, frac, unit) ==
    LET t == FracTimes(frac, 10)
        rest == t.digits
        above == rest # <<>> /\ (Head(rest) > Base \div 2
                                \/ (Head(rest) = Base \div 2
                                    /\ \E i \in 2..Len(rest) : rest[i] # 0))
        half == rest # <<>> /\ Head(rest) = Base \div 2
                            /\ \A i \in 2..Len(rest) : rest[i] = 0
        down == whole * 10 + t.carry
        tenths == IF above \/ (half /\ down % 2 = 1) THEN down + 1 ELSE down
    IN  Decimal(tenths \div 10) \o <<".">> \o Decimal(tenths % 10) \o <<" ">> \o unit

\* human_size of a value of filter_and_sort's size field
human_size(v) ==
    IF v.t = "int" /\ v.n < 0
    THEN <<"-">> \o Decimal(0 - v.n) \o <<".", "0", " ", "B">>
    ELSE LET b == IF v.t = "int" THEN BigOfInt(v.n) ELSE BigNorm(v.b)
             k == IF Len(b) = 0 THEN 0 ELSE IF Len(b) > 6 THEN 5 ELSE Len(b) - 1
         IN  OneDecimal(BigToInt(SubSeq(b, 1, Len(b) - k)),
                        SubSeq(b, Len(b) - k + 1, Len(b)),
                        IF k = 0 THEN <<"B">> ELSE <<Head(SizeUnitNames[k + 1]), "B">>)

(***************************************************************************)
(* The fixed tables.                                                       *)
(***************************************************************************)
API_ENDPOINTS == <<"apibay.org", "pirateproxy.live", "apibay.sbs">>

HTML_ENDPOINTS == <<"thepiratebay.org", "thepiratebay0.org", "tpb.party">>

CATEGORY_SETS ==
    [movies_hd |-> <<"207", "201", "200">>,
     shows_hd  |-> <<"208", "205", "200">>,
     all_video |-> <<"200", "0">>]

(***************************************************************************)
(* What one HTTP attempt can end in.  A response body is classified the    *)
(* way the code classifies it; an exception by its class.                  *)
(***************************************************************************)
\* json.loads(body) gave a non-empty list / an empty list / a value that is no list
JsonBodies == {"rows", "empty_list", "not_list"}

\* parser.rows is non-empty / empty
HtmlBodies == {"rows", "no_rows"}

\* the classes named by the except clauses of both fetchers
CaughtNetwork == {"URLError", "HTTPError", "TimeoutError"}

\* the class named by the second except clause of fetch_results
CaughtDecode == {"JSONDecodeError"}

\* a network failure urlopen()/resp.read() report with a class that no except
\* clause names (http.client.RemoteDisconnected, IncompleteRead, BadStatusLine)
Escaping == {"HTTPException"}

JsonOutcomes == JsonBodies \cup CaughtNetwork \cup CaughtDecode \cup Escaping

HtmlOutcomes == HtmlBodies \cup CaughtNetwork \cup Escaping

IsError(kind) == kind \in CaughtNetwork \cup CaughtDecode \cup Escaping

\* the row lists a response can hold (rows are opaque to the fetchers)
Payloads == {<<"r1">>, <<"r2", "r3">>}

Codes(key) == CATEGORY_SETS[key]

Attempt(fetcher, e, c, key) ==
    [fetcher |-> fetcher, ep |-> e, cat |-> Codes(key)[c]]

Err(fetcher, e, c, key, exc) ==
    [kind |-> "Error", fetcher |-> fetcher, ep |-> e, cat |-> Codes(key)[c], exc |-> exc]

\* history record: the response of attempt `at` held the rows `rows`
Yield(at, rows) == [kind |-> "Yield", at |-> at, rows |-> rows]

RowsResult(rows) == [kind |-> "rows", rows |-> rows]

EmptyResult == [kind |-> "empty", rows |-> <<>>]

Raised(msg, cause) == [kind |-> "error", msg |-> msg, cause |-> cause]

(***************************************************************************)
(* The two nested for loops: the combination after (e, c), or Exhausted    *)
(* when (e, c) was the last one.                                           *)
(***************************************************************************)
Exhausted == [ep |-> 0, ci |-> 0]

\* mutant: the loop stays at the combination it is at
NextCombo_Mut(e, c, key, endpoints) == [ep |-> e, ci |-> c]

NextCombo(e, c, key, endpoints) ==
    IF c < Len(Codes(key)) THEN [ep |-> e, ci |-> c + 1]
    ELSE IF e < Len(endpoints) THEN [ep |-> e + 1, ci |-> 1]
    ELSE Exhausted

\* mutant: the non-empty list is not returned, the loops go on
JsonReturns_Mut(kind) == FALSE

\* `if isinstance(data, list) and data: return data`
JsonReturns(kind) == kind = "rows"

\* `if parser.rows: return parser.rows`
HtmlReturns(kind) == kind = "rows"

\* except (URLError, HTTPError, TimeoutError) / except json.JSONDecodeError
JsonCaught(kind) == kind \in CaughtNetwork \cup CaughtDecode

\* except (URLError, HTTPError, TimeoutError)
HtmlCaught(kind) == kind \in CaughtNetwork

\* mutant: the first error is kept
Record_Mut(old, caught, exc) == IF caught /\ old = None THEN exc ELSE old

\* `except ... as exc: last_error = exc`, and last_error as it was when the
\* attempt raised nothing
Record(old, caught, exc) == IF caught THEN exc ELSE old

\* mutant: the recorded error is dropped
HtmlTail_Mut(herr) == EmptyResult

\* the statements of fetch_html_results after its loops
HtmlTail(herr) ==
    IF herr # None
    THEN Raised("All HTML endpoints failed", herr)
    ELSE EmptyResult

\* mutant: last_error is tested before html_rows
FetchTail_Mut(html_rows, jerr) ==
    IF jerr # None
    THEN Raised("All proxy endpoints/categories failed", jerr)
    ELSE IF html_rows # <<>> THEN RowsResult(html_rows)
    ELSE EmptyResult

\* the statements of fetch_results after fetch_html_results returned html_rows
FetchTail(html_rows, jerr) ==
    IF html_rows # <<>> THEN RowsResult(html_rows)
    ELSE IF jerr # None
    THEN Raised("All proxy endpoints/categories failed", jerr)
    ELSE EmptyResult

SearchInit ==
    /\ pc = "idle"
    /\ category_key = "movies_hd"
    /\ ep = 0
    /\ ci = 0
    /\ last_error = None
    /\ html_last_error = None
    /\ result = None
    /\ requests = <<>>
    /\ erred = {}
    /\ yielded = None
    /\ latest = None
    /\ inflight = {}

\* no document is being parsed
ParserIdle ==
    /\ parser = NewParser
    /\ doc = <<>>
    /\ given = None
    /\ closed = None
    /\ raised = ""

\* filter_and_sort has not been called
FilterIdle ==
    /\ raw = <<>>
    /\ resolution_var = "1080"
    /\ results = None

\* no magnet link has been built
MagnetIdle ==
    /\ bm_info_hash = <<>>
    /\ bm_name = <<>>
    /\ magnet_var = None

\* neither function has been called on its own
PureIdle ==
    /\ btih_call = None
    /\ btih_ret = None
    /\ size_call = None
    /\ size_ret = None

\* the window as create_app builds it
AppIdle ==
    /\ table = <<>>
    /\ status_var = [kind |-> "Ready", n |-> 0, label |-> ""]
    /\ messagebox = None
    /\ searches = 0

\* fetch_results is called: last_error = None, the loops start at the first combination
StartSearch(key) ==
    /\ pc = "idle"
    /\ pc' = "json"
    /\ category_key' = key
    /\ ep' = 1
    /\ ci' = 1
    /\ last_error' = None
    /\ html_last_error' = None
    /\ result' = None
    /\ requests' = <<>>
    /\ erred' = {}
    /\ yielded' = None
    /\ latest' = None
    /\ inflight' = {}
    /\ UNCHANGED <<parserVars, filterVars, magnetVars, pureVars, appVars>>

\* urllib.request.urlopen(req, timeout=...) is called: the request of the
\* combination the loops are at is sent, and the call blocks until it completes
UrlOpen ==
    /\ pc \in {"json", "html"}
    /\ inflight = {}
    /\ inflight' = {Attempt(pc, ep, ci, category_key)}
    /\ UNCHANGED <<pc, category_key, ep, ci, last_error, html_last_error, result,
                   requests, erred, yielded, latest>>
    /\ UNCHANGED <<parserVars, filterVars, magnetVars, pureVars, appVars>>

\* the rest of one iteration of the loops of fetch_results: the request to
\* API_ENDPOINTS[ep] completes with a response, an error or a timeout
JsonAttempt(kind, payload) ==
    /\ pc = "json"
    /\ inflight = {Attempt("json", ep, ci, category_key)}
    /\ inflight' = {}
    /\ requests' = Append(requests, Attempt("json", ep, ci, category_key))
    /\ erred' = IF IsError(kind) THEN erred \cup {<<"json", ep>>} ELSE erred
    /\ latest' = IF IsError(kind) THEN Err("json", ep, ci, category_key, kind) ELSE latest
    /\ yielded' = IF kind = "rows" /\ yielded = None
                   THEN Yield(Attempt("json", ep, ci, category_key), payload)
                   ELSE yielded
    /\ UNCHANGED <<category_key, html_last_error>>
    /\ UNCHANGED <<parserVars, filterVars, magnetVars, pureVars, appVars>>
    /\ IF JsonReturns(kind)
       THEN /\ result' = RowsResult(payload)
            /\ pc' = "done"
            /\ UNCHANGED <<ep, ci, last_error>>
       ELSE IF IsError(kind) /\ ~JsonCaught(kind)
       THEN \* the exception leaves fetch_results
            /\ result' = Raised(kind, Err("json", ep, ci, category_key, kind))
            /\ pc' = "done"
            /\ UNCHANGED <<ep, ci, last_error>>
       ELSE /\ last_error' = Record(last_error, JsonCaught(kind),
                                    Err("json", ep, ci, category_key, kind))
            /\ LET n == NextCombo(ep, ci, category_key, API_ENDPOINTS) IN
               IF n = Exhausted
               THEN \* html_rows = fetch_html_results(query, category_key)
                    /\ pc' = "html"
                    /\ ep' = 1
                    /\ ci' = 1
               ELSE /\ pc' = "json"
                    /\ ep' = n.ep
                    /\ ci' = n.ci
            /\ UNCHANGED result

\* the rest of one iteration of the loops of fetch_html_results: the request
\* to HTML_ENDPOINTS[ep] completes
HtmlAttempt(kind, payload) ==
    /\ pc = "html"
    /\ inflight = {Attempt("html", ep, ci, category_key)}
    /\ inflight' = {}
    /\ requests' = Append(requests, Attempt("html", ep, ci, category_key))
    /\ erred' = IF IsError(kind) THEN erred \cup {<<"html", ep>>} ELSE erred
    /\ latest' = IF IsError(kind) THEN Err("html", ep, ci, category_key, kind) ELSE latest
    /\ yielded' = IF kind = "rows" /\ yielded = None
                   THEN Yield(Attempt("html", ep, ci, category_key), payload)
                   ELSE yielded
    /\ UNCHANGED <<category_key, last_error>>
    /\ UNCHANGED <<parserVars, filterVars, magnetVars, pureVars, appVars>>
    /\ IF HtmlReturns(kind)
       THEN /\ result' = FetchTail(payload, last_error)
            /\ pc' = "done"
            /\ UNCHANGED <<ep, ci, html_last_error>>
       ELSE IF IsError(kind) /\ ~HtmlCaught(kind)
       THEN \* the exception leaves fetch_html_results and fetch_results
            /\ result' = Raised(kind, Err("html", ep, ci, category_key, kind))
            /\ pc' = "done"
            /\ UNCHANGED <<ep, ci, html_last_error>>
       ELSE LET herr == Record(html_last_error, HtmlCaught(kind),
                               Err("html", ep, ci, category_key, kind))
                n == NextCombo(ep, ci, category_key, HTML_ENDPOINTS)
            IN  /\ html_last_error' = herr
                /\ IF n = Exhausted
                   THEN /\ result' = (IF HtmlTail(herr).kind = "error"
                                      THEN HtmlTail(herr)
                                      ELSE FetchTail(HtmlTail(herr).rows, last_error))
                        /\ pc' = "done"
                        /\ UNCHANGED <<ep, ci>>
                   ELSE /\ pc' = "html"
                        /\ ep' = n.ep
                        /\ ci' = n.ci
                        /\ UNCHANGED result

\* a request that is in flight completes
Completes ==
    \/ \E kind \in JsonOutcomes :
         \E payload \in (IF kind = "rows" THEN Payloads ELSE {<<>>}) :
            JsonAttempt(kind, payload)
    \/ \E kind \in HtmlOutcomes :
         \E payload \in (IF kind = "rows" THEN Payloads ELSE {<<>>}) :
            HtmlAttempt(kind, payload)

SearchNext ==
    \/ \E key \in DOMAIN CATEGORY_SETS : StartSearch(key)
    \/ UrlOpen
    \/ Completes

(***************************************************************************)
(* The parser fed any sequence of events (SpecParser), and the parser fed  *)
(* the events of one well-formed result row (SpecRow).                     *)
(***************************************************************************)
\* at most MaxRows rows are emitted, then the input ends
MaxRows == 1

\* a row has at most MaxCells right-aligned cells that hold a number
MaxCells == 3

StartEvents ==
    {StartTag("tr", NoAttrs),
     StartTag("div", Attrs("detName", "", <<>>)),
     StartTag("font", Attrs("detDesc", "", <<>>)),
     StartTag("a", Attrs("detLink", "", TorrentHref)),
     StartTag("a", Attrs("", "", MagnetShort)),
     StartTag("a", Attrs("", "", MagnetSha1)),
     StartTag("a", Attrs("", "", MagnetEmptyBtih)),
     StartTag("a", Attrs("", "", MagnetDnFirst)),
     StartTag("a", Attrs("", "", NoValue)),
     StartTag("td", Attrs("", "right", <<>>)),
     StartTag("td", NoAttrs)}

EndEvents == {EndTag("tr"), EndTag("div"), EndTag("a"), EndTag("font"), EndTag("td")}

DataEvents == {Data(TitleText), Data(PaddedText), Data(SizeText), Data(SeedText),
               Data(BlankText), Data(<<"SUP2">>)}

\* parser.feed: the next event reaches its handler
Feed(ev) ==
    /\ raised = ""
    /\ Len(parser.rows) < MaxRows
    /\ LET q == Dispatch(parser, ev) IN
         /\ Len(q.align_right_values) <= MaxCells
         /\ parser' = q
         /\ closed' = Closing(parser, ev, q)
         /\ raised' = Raises(parser, ev)
    /\ UNCHANGED <<doc, given>>
    /\ UNCHANGED <<searchVars, filterVars, magnetVars, pureVars, appVars>>

FeedStart == \E ev \in StartEvents : Feed(ev)

FeedEnd == \E ev \in EndEvents : Feed(ev)

FeedData == \E ev \in DataEvents : Feed(ev)

ParserInit == SearchInit /\ ParserIdle /\ FilterIdle /\ MagnetIdle /\ PureIdle /\ AppIdle

ParserNext == FeedStart \/ FeedEnd \/ FeedData

SpecParser == ParserInit /\ [][ParserNext]_vars

\* the texts of a numeric cell, each with the number it denotes
CellTexts == {[text |-> SeedText, n |-> 120],
              [text |-> LeechText, n |-> 5],
              [text |-> <<"0">>, n |-> 0],
              [text |-> <<"0", "0", "7">>, n |-> 7]}

OtherTitle == <<"B">>

\* the magnet links of a well-formed row, each with its info-hash
RowMagnets == {[href |-> MagnetPlain, hash |-> Hash1],
               [href |-> MagnetWithParams, hash |-> Hash2]}

\* text outside the cells, between the tags
Gap(rich) == IF rich THEN <<Data(BlankText)>> ELSE <<>>

\* the category cell that precedes the title cell on the site's pages
CategoryCell(rich) ==
    IF rich
    THEN <<StartTag("td", NoAttrs), StartTag("a", Attrs("", "", TorrentHref)),
           Data(<<"V", "i", "d", "e", "o">>), EndTag("a"), EndTag("td")>>
    ELSE <<>>

\* the event sequence of one well-formed row
RowEvents(title, pad, magnet, desc, seed, leech, rich) ==
    <<StartTag("tr", NoAttrs)>> \o Gap(rich) \o CategoryCell(rich)
    \o <<StartTag("td", NoAttrs),
         StartTag("div", Attrs("detName", "", <<>>)),
         StartTag("a", Attrs("detLink", "", TorrentHref)),
         Data(IF pad THEN <<"\n", " ">> \o title \o <<" ", "\n">> ELSE title),
         EndTag("a"),
         EndTag("div")>> \o Gap(rich)
    \o <<StartTag("a", Attrs("", "", magnet)),
         EndTag("a"),
         StartTag("font", Attrs("detDesc", "", <<>>)),
         Data(desc),
         EndTag("font"),
         EndTag("td")>> \o Gap(rich)
    \o <<StartTag("td", Attrs("", "right", <<>>)), Data(seed), EndTag("td"),
         StartTag("td", Attrs("", "right", <<>>)), Data(leech), EndTag("td")>>
    \o Gap(rich) \o <<EndTag("tr")>>

RowInit ==
    /\ SearchInit
    /\ FilterIdle
    /\ MagnetIdle
    /\ PureIdle
    /\ AppIdle
    /\ parser = NewParser
    /\ closed = None
    /\ raised = ""
    /\ \E title \in {TitleText, OtherTitle}, pad \in BOOLEAN, m \in RowMagnets,
          desc \in {SizeText, DescText}, s \in CellTexts, l \in CellTexts,
          rich \in BOOLEAN :
          /\ doc = RowEvents(title, pad, m.href, desc, s.text, l.text, rich)
          /\ given = [kind |-> "Row", name |-> title, hash |-> m.hash,
                      seeders |-> s.n, leechers |-> l.n]

\* parser.feed: the next event of the document reaches its handler
FeedDoc ==
    /\ doc # <<>>
    /\ raised = ""
    /\ LET q == Dispatch(parser, Head(doc)) IN
         /\ parser' = q
         /\ closed' = Closing(parser, Head(doc), q)
         /\ raised' = Raises(parser, Head(doc))
    /\ doc' = Tail(doc)
    /\ UNCHANGED given
    /\ UNCHANGED <<searchVars, filterVars, magnetVars, pureVars, appVars>>

RowNext == FeedDoc

SpecRow == RowInit /\ [][RowNext]_vars

(***************************************************************************)
(* filter_and_sort applied to a list of raw rows (SpecFilter).             *)
(***************************************************************************)
Name1080 == <<"E", "x", "a", "m", "p", "l", "e", ".", "M", "o", "v", "i", "e", ".", "1", "0", "8", "0", "p">>

Name720 == <<"E", "x", "a", "m", "p", "l", "e", ".", "M", "o", "v", "i", "e", ".", "7", "2", "0", "p">>

Name4K == <<"E", "x", "a", "m", "p", "l", "e", ".", "M", "o", "v", "i", "e", ".", "4", "K">>

Name2160 == <<"E", "x", "a", "m", "p", "l", "e", ".", "M", "o", "v", "i", "e", ".", "2", "1", "6", "0", "p">>

NameUHD == <<"S", "h", "o", "w", ".", "S", "0", "1", ".", "U", "H", "D", ".", "x", "2", "6", "5">>

\* every short list has at most MaxRowsIn rows
MaxRowsIn == 2

\* the long lists have from MaxResults - MaxOver to MaxResults + MaxOver rows
MaxOver == 2

NameVals == {StrV(Name1080), StrV(Name720), StrV(Name4K), StrV(Name2160),
             StrV(NameUHD), Missing}

HashVals == {StrV(HashShort), Missing}

\* the JSON API gives the numbers as strings, the HTML parser as ints
SeederVals == {IntV(3), StrV(<<"1", "0">>)}

\* a raw row; leechers holds the row's place in the list
RawRow(name, info_hash, seeders, place) ==
    [t |-> "dict", name |-> name, info_hash |-> info_hash, seeders |-> seeders,
     leechers |-> IntV(place), size |-> BigV(<<2, 0, 0, 0>>)]

\* name, info_hash and seeders of the rows of the short lists; the last two
\* have an empty info_hash
RowVals ==
    (NameVals \X HashVals \X SeederVals)
    \cup {<<StrV(Name1080), StrV(<<>>), IntV(3)>>,
          <<StrV(Name4K), StrV(<<>>), StrV(<<"1", "0">>)>>}

\* the list whose row at place i has the values c[i]
ShortList(c) ==
    [i \in DOMAIN c |-> RawRow(c[i][1], c[i][2], c[i][3], i)]

\* the seeders of the row at place i of a long list
Pattern(pat, i) ==
    CASE pat = "equal"   -> IntV(7)
      [] pat = "rising"  -> IntV(i \div 5)
      [] pat = "falling" -> IntV(40 - (i \div 5))
      [] pat = "cycle"   -> IntV((i * 7) % 5)
      [] pat = "mixed"   -> IF i % 2 = 0 THEN StrV(<<"1", "0">>) ELSE IntV(i % 3)

LongLists ==
    {[i \in 1..n |->
        RawRow(IF pat = "mixed" /\ i % 9 = 0 THEN StrV(Name4K) ELSE StrV(Name1080),
               StrV(HashShort), Pattern(pat, i), i)] :
        n \in (MaxResults - MaxOver)..(MaxResults + MaxOver),
        pat \in {"equal", "rising", "falling", "cycle", "mixed"}}

Resolutions == {"4k", "1080", "any"}

\* values a mirror can send in place of a count: negative, not a number,
\* null, or nothing
OddSeeders == {IntV(0 - 2), StrV(<<"-", "5">>), StrV(<<"a", "b", "c">>), NoneV, Missing}

OddSizes == {IntV(0 - 1), StrV(<<"1", ".", "5">>), Missing}

\* a name that is text, and one that is a number
OddNames == {StrV(Name1080), StrV(Name720), IntV(5)}

\* an element of the list that is a str, not a dict
NotADict ==
    [t |-> "str", name |-> Missing, info_hash |-> Missing, seeders |-> Missing,
     leechers |-> Missing, size |-> Missing]

\* name, seeders and size of the rows of the odd lists; the first is well formed
OddVals ==
    {<<StrV(Name1080), IntV(3), BigV(<<2, 0, 0, 0>>)>>}
    \cup {<<name, seeders, BigV(<<2, 0, 0, 0>>)>> : name \in OddNames, seeders \in OddSeeders}
    \cup {<<StrV(Name1080), IntV(3), size>> : size \in OddSizes}

\* the list whose element at place i is a row with the values c[i], or not a
\* dict where c[i] is no values
OddList(c) ==
    [i \in DOMAIN c |->
        IF c[i] = <<>> THEN NotADict
        ELSE [RawRow(c[i][1], StrV(HashShort), c[i][2], i) EXCEPT !.size = c[i][3]]]

\* results = filter_and_sort(raw, resolution=resolution_var.get())
FilterShort ==
    /\ results = None
    /\ \E n \in 0..MaxRowsIn, res \in Resolutions :
          \E c \in [1..n -> RowVals] :
              /\ raw' = ShortList(c)
              /\ resolution_var' = res
              /\ results' = filter_and_sort(ShortList(c), res)
    /\ UNCHANGED <<searchVars, parserVars, magnetVars, pureVars, appVars>>

FilterLong ==
    /\ results = None
    /\ \E rows \in LongLists, res \in Resolutions :
          /\ raw' = rows
          /\ resolution_var' = res
          /\ results' = filter_and_sort(rows, res)
    /\ UNCHANGED <<searchVars, parserVars, magnetVars, pureVars, appVars>>

FilterOdd ==
    /\ results = None
    /\ \E n \in 1..MaxRowsIn, res \in Resolutions :
          \E c \in [1..n -> OddVals \cup {<<>>}] :
              /\ raw' = OddList(c)
              /\ resolution_var' = res
              /\ results' = filter_and_sort(OddList(c), res)
    /\ UNCHANGED <<searchVars, parserVars, magnetVars, pureVars, appVars>>

FilterInit == SearchInit /\ ParserIdle /\ FilterIdle /\ MagnetIdle /\ PureIdle /\ AppIdle

FilterNext == FilterShort \/ FilterLong \/ FilterOdd

SpecFilter == FilterInit /\ [][FilterNext]_vars

(***************************************************************************)
(* build_magnet applied to an info-hash and a name (SpecMagnet).           *)
(***************************************************************************)
\* a generated name has at most MaxNameLen characters
MaxNameLen == 3

NameChars == {"M", "y", " ", "/", "&", "%"}

MyMovie == <<"M", "y", " ", "M", "o", "v", "i", "e">>

MagnetNames ==
    UNION {[1..n -> NameChars] : n \in 0..MaxNameLen} \cup {MyMovie, TitleText}

\* on_row_selected: magnet = build_magnet(info_hash, name); magnet_var.set(magnet)
BuildMagnet ==
    /\ magnet_var = None
    /\ \E h \in {Hash1, HashShort}, n \in MagnetNames :
          /\ bm_info_hash' = h
          /\ bm_name' = n
          /\ magnet_var' = Some(build_magnet(h, n))
    /\ UNCHANGED <<searchVars, parserVars, filterVars, pureVars, appVars>>

MagnetInit == SearchInit /\ ParserIdle /\ FilterIdle /\ MagnetIdle /\ PureIdle /\ AppIdle

MagnetNext == BuildMagnet

SpecMagnet == MagnetInit /\ [][MagnetNext]_vars

(***************************************************************************)
(* parse_btih_from_magnet applied to a string (SpecBtih).  The string is a *)
(* head followed by fields joined with "&"; each field is listed with      *)
(* whether it is an xt parameter of the btih namespace and, if so, with    *)
(* the info-hash it carries.                                               *)
(***************************************************************************)
\* a string has at most MaxFields fields
MaxFields == 2

BtihHeads ==
    {MagnetScheme,
     <<"m", "a", "g", "n", "e", "t", ":">>,
     <<"M", "a", "g", "n", "e", "t", ":", "?">>,
     <<" ", "m", "a", "g", "n", "e", "t", ":", "?">>,
     <<"h", "t", "t", "p", ":", "/", "/", "x", ".", "o", "r", "g", "/", "?">>,
     <<>>}

BtihFields ==
    {[text |-> <<"x", "t", "=", "u", "r", "n", ":", "b", "t", "i", "h", ":", "A", "1", "B", "2", "C", "3", "D", "4", "E", "5", "F", "6", "0", "7", "1", "8", "2", "9", "3", "A", "4", "B", "5", "C", "6", "D", "7", "E", "8", "F", "9", "0", "1", "2", "3", "4", "5", "6", "7", "8">>,
      hit |-> TRUE, hash |-> Hash1],
     [text |-> <<"x", "t", "=", "u", "r", "n", ":", "b", "t", "i", "h", ":", "C", "0", "F", "F", "E", "E">>,
      hit |-> TRUE, hash |-> HashShort],
     [text |-> <<"x", "t", "=", "u", "r", "n", ":", "b", "t", "i", "h", ":", "A", "B", ":", "C", "D">>,
      hit |-> TRUE, hash |-> <<"A", "B", ":", "C", "D">>],
     [text |-> <<"x", "t", "=", "u", "r", "n", "%", "3", "A", "b", "t", "i", "h", "%", "3", "A", "C", "0", "F", "F", "E", "E">>,
      hit |-> TRUE, hash |-> HashShort],
     [text |-> <<"x", "t", "=", "u", "r", "n", ":", "b", "t", "i", "h", ":">>,
      hit |-> TRUE, hash |-> <<>>],
     [text |-> <<"x", "t", "=", "u", "r", "n", ":", "s", "h", "a", "1", ":", "X", "Y", "Z">>,
      hit |-> FALSE, hash |-> <<>>],
     [text |-> <<"x", "t", "=", "u", "r", "n", ":", "b", "t", "m", "h", ":", "1", "2", "2", "0", "A", "B">>,
      hit |-> FALSE, hash |-> <<>>],
     [text |-> <<"x", "t", "=", "U", "R", "N", ":", "B", "T", "I", "H", ":", "A", "B">>,
      hit |-> FALSE, hash |-> <<>>],
     [text |-> <<"x", "t", "=">>,
      hit |-> FALSE, hash |-> <<>>],
     [text |-> <<"x", "t">>,
      hit |-> FALSE, hash |-> <<>>],
     [text |-> <<"x", "t", ".", "1", "=", "u", "r", "n", ":", "b", "t", "i", "h", ":", "A", "B">>,
      hit |-> FALSE, hash |-> <<>>],
     [text |-> <<"d", "n", "=", "E", "x", "a", "m", "p", "l", "e">>,
      hit |-> FALSE, hash |-> <<>>],
     [text |-> <<"t", "r", "=", "u", "d", "p", "%", "3", "A", "%", "2", "F", "%", "2", "F", "t", ".", "o", "r", "g", "%", "3", "A", "1", "3", "3", "7">>,
      hit |-> FALSE, hash |-> <<>>]}

\* "&".join(texts)
RECURSIVE JoinFields(_)
JoinFields(fields) ==
    IF fields = <<>> THEN <<>>
    ELSE Head(fields).text
         \o (IF Len(fields) > 1 THEN <<"&">> \o JoinFields(Tail(fields)) ELSE <<>>)

\* info_hash = parse_btih_from_magnet(magnet)
CallBtih ==
    /\ btih_call = None
    /\ \E head \in BtihHeads, n \in 0..MaxFields :
          \E fields \in [1..n -> BtihFields] :
              LET magnet == head \o JoinFields(fields) IN
              /\ btih_call' = [magnet |-> magnet, head |-> head, fields |-> fields]
              /\ btih_ret' = parse_btih_from_magnet(magnet)
    /\ UNCHANGED <<size_call, size_ret>>
    /\ UNCHANGED <<searchVars, parserVars, filterVars, magnetVars, appVars>>

BtihInit == SearchInit /\ ParserIdle /\ FilterIdle /\ MagnetIdle /\ PureIdle /\ AppIdle

BtihNext == CallBtih

SpecBtih == BtihInit /\ [][BtihNext]_vars

(***************************************************************************)
(* parse_size_bytes applied to a text (SpecSize).  A text with the pattern *)
(* is lead, "Size ", a number, a separator, a unit word and a trail; the   *)
(* number is listed with its value and the unit with its magnitude k.      *)
(***************************************************************************)
\* a generated number has at most MaxDigits digits
MaxDigits == 2

SizeLeads == {<<>>, <<"U", "p", "l", "o", "a", "d", "e", "d", " ", "0", "3", "-", "1", "2", ",", " ">>}

\* the whole part of the number: the generated digit strings, and numbers
\* around 2^53
SizeNumbers ==
    {[text |-> d, big |-> BigOfInt(ToInt(d))] :
        d \in UNION {[1..n -> {"0", "1", "7"}] : n \in 1..MaxDigits}}
    \cup {[text |-> <<"7", "0", "0">>, big |-> <<700>>],
          [text |-> <<"9", "0", "0", "7", "1", "9", "9", "2", "5", "4", "7", "4", "0", "9", "9", "2">>, big |-> <<8, 0, 0, 0, 0, 0>>],
          [text |-> <<"9", "0", "0", "7", "1", "9", "9", "2", "5", "4", "7", "4", "0", "9", "9", "3">>, big |-> <<8, 0, 0, 0, 0, 1>>]}

\* the fraction part of the number
SizeFractions == {<<>>, <<".", "5">>}

SizeSeparators == {<<" ">>, <<>>}

\* the unit words of the scale table in several spellings, each with its
\* magnitude
SizeUnits ==
    {[text |-> <<"B">>, k |-> 0],
     [text |-> <<"K", "i", "B">>, k |-> 1],
     [text |-> <<"K", "B">>, k |-> 1],
     [text |-> <<"M", "i", "B">>, k |-> 2],
     [text |-> <<"M", "B">>, k |-> 2],
     [text |-> <<"G", "i", "B">>, k |-> 3],
     [text |-> <<"G", "B">>, k |-> 3],
     [text |-> <<"T", "i", "B">>, k |-> 4],
     [text |-> <<"T", "B">>, k |-> 4],
     [text |-> <<"g", "i", "b">>, k |-> 3],
     [text |-> <<"m", "B">>, k |-> 2],
     [text |-> <<"K", "I", "B">>, k |-> 1]}

SizeTrails == {<<>>, <<",", " ", "U", "L", "e", "d", " ", "b", "y", " ", "x">>}

\* texts in which the pattern has no match
SizeNoMatch ==
    {<<>>,
     <<"U", "p", "l", "o", "a", "d", "e", "d", " ", "0", "3", "-", "1", "2", ",", " ", "U", "L", "e", "d", " ", "b", "y", " ", "x">>,
     <<"S", "i", "z", "e">>,
     <<"S", "i", "z", "e", " ", "1", "2">>,
     <<"S", "i", "z", "e", " ", "1", "2", ".", "5">>,
     <<"S", "i", "z", "e", " ", "G", "i", "B">>,
     <<"s", "i", "z", "e", " ", "5", " ", "M", "B">>,
     <<"S", "i", "z", "e", " ", ".", "5", " ", "M", "B">>,
     <<"S", "i", "z", "e", " ", " ", "5", " ", "M", "B">>,
     <<"S", "i", "z", "e", ":", " ", "5", " ", "M", "B">>}

\* size_bytes = parse_size_bytes(text), on a text with the pattern
CallSize ==
    /\ size_call = None
    /\ \E lead \in SizeLeads, n \in SizeNumbers, frac \in SizeFractions,
          sep \in SizeSeparators, unit \in SizeUnits, trail \in SizeTrails :
          LET text == lead \o SizeWord \o n.text \o frac \o sep \o unit.text \o trail IN
          /\ size_call' = [text |-> text, pattern |-> TRUE, n |-> n.big,
                           frac |-> frac, unit |-> unit.text, k |-> unit.k]
          /\ size_ret' = parse_size_bytes(text)
    /\ UNCHANGED <<btih_call, btih_ret>>
    /\ UNCHANGED <<searchVars, parserVars, filterVars, magnetVars, appVars>>

\* size_bytes = parse_size_bytes(text), on a text without the pattern
CallSizeNoMatch ==
    /\ size_call = None
    /\ \E text \in SizeNoMatch :
          /\ size_call' = [text |-> text, pattern |-> FALSE, n |-> <<>>,
                           frac |-> <<>>, unit |-> <<>>, k |-> 0]
          /\ size_ret' = parse_size_bytes(text)
    /\ UNCHANGED <<btih_call, btih_ret>>
    /\ UNCHANGED <<searchVars, parserVars, filterVars, magnetVars, appVars>>

SizeInit == SearchInit /\ ParserIdle /\ FilterIdle /\ MagnetIdle /\ PureIdle /\ AppIdle

SizeNext == CallSize \/ CallSizeNoMatch

SpecSize == SizeInit /\ [][SizeNext]_vars

(***************************************************************************)
(* The parser fed a page: what an earlier part of the page left behind,    *)
(* then one row whose title anchor holds one or two texts (SpecPage).      *)
(***************************************************************************)
OldTitle == <<"O", "l", "d", ".", "N", "a", "m", "e", ".", "7", "2", "0", "p">>

OldSizeText == <<"S", "i", "z", "e", " ", "7", "0", "0", " ", "M", "i", "B">>

\* 700 * 1024^2 bytes
OldSize == <<700, 0, 0>>

OldSeedText == <<"9">>

\* a row that captured a name, a magnet link, a size and a number; with
\* closes, every region is closed again, and the row itself is not
OpenRow(closes) ==
    <<StartTag("tr", NoAttrs), StartTag("td", NoAttrs),
      StartTag("div", Attrs("detName", "", <<>>)),
      StartTag("a", Attrs("detLink", "", TorrentHref)),
      Data(OldTitle)>>
    \o (IF closes THEN <<EndTag("a"), EndTag("div")>> ELSE <<>>)
    \o <<StartTag("a", Attrs("", "", MagnetShort))>>
    \o (IF closes THEN <<EndTag("a")>> ELSE <<>>)
    \o <<StartTag("font", Attrs("detDesc", "", <<>>)), Data(OldSizeText)>>
    \o (IF closes THEN <<EndTag("font"), EndTag("td")>> ELSE <<>>)
    \o <<StartTag("td", Attrs("", "right", <<>>)), Data(OldSeedText)>>
    \o (IF closes THEN <<EndTag("td")>> ELSE <<>>)

\* what precedes the row, with the number of rows it opens, the number of
\* rows it makes the parser emit, and whether it leaves the regions open
Leftovers ==
    {[events |-> <<>>, opened |-> 0, rows |-> 0, open |-> FALSE],
     [events |-> OpenRow(FALSE), opened |-> 1, rows |-> 0, open |-> TRUE],
     [events |-> OpenRow(TRUE), opened |-> 1, rows |-> 0, open |-> FALSE],
     [events |-> OpenRow(TRUE) \o <<EndTag("tr")>>, opened |-> 1, rows |-> 1, open |-> FALSE],
     [events |-> <<EndTag("td"), EndTag("tr"), EndTag("div"), Data(OldTitle)>>,
      opened |-> 0, rows |-> 0, open |-> FALSE]}

BoldText == <<"H", "D">>

TailText == <<" ", "2", "0", "2", "4", " ">>

\* the texts inside the title anchor after the first one: each is a text
\* event of its own, the first of them inside a <b> element
LaterTexts == {<<>>, <<BoldText>>, <<BoldText, TailText>>, <<BlankText>>}

\* the events of the title anchor
TitleAnchor(first, later) ==
    <<StartTag("a", Attrs("detLink", "", TorrentHref)), Data(first)>>
    \o (IF Len(later) >= 1
        THEN <<StartTag("b", NoAttrs), Data(later[1]), EndTag("b")>> ELSE <<>>)
    \o (IF Len(later) >= 2 THEN <<Data(later[2])>> ELSE <<>>)
    \o <<EndTag("a")>>

\* the events of the row
PageRow(first, later, magnet, seed, leech) ==
    <<StartTag("tr", NoAttrs), StartTag("td", NoAttrs),
      StartTag("div", Attrs("detName", "", <<>>))>>
    \o TitleAnchor(first, later)
    \o <<EndTag("div"),
         StartTag("a", Attrs("", "", magnet)), EndTag("a"),
         StartTag("font", Attrs("detDesc", "", <<>>)), Data(DescText), EndTag("font"),
         EndTag("td"),
         StartTag("td", Attrs("", "right", <<>>)), Data(seed), EndTag("td"),
         StartTag("td", Attrs("", "right", <<>>)), Data(leech), EndTag("td"),
         EndTag("tr")>>

\* the last of the texts that is not blank
LastText(texts) ==
    LET full == SelectSeq(texts, LAMBDA t : Strip(t) # <<>>) IN Strip(full[Len(full)])

PageInit ==
    /\ SearchInit
    /\ FilterIdle
    /\ MagnetIdle
    /\ PureIdle
    /\ AppIdle
    /\ parser = NewParser
    /\ closed = None
    /\ raised = ""
    /\ \E left \in Leftovers, first \in {TitleText, PaddedText}, later \in LaterTexts,
          m \in RowMagnets, sd \in CellTexts, l \in CellTexts :
          LET row == PageRow(first, later, m.href, sd.text, l.text) IN
          /\ doc = left.events \o row
          /\ given = [kind |-> "Page", opened |-> left.opened, before |-> left.rows,
                      open |-> left.open,
                      len |-> Len(row), first |-> Strip(first),
                      last |-> LastText(<<first>> \o later), texts |-> 1 + Len(later),
                      hash |-> m.hash, seeders |-> sd.n, leechers |-> l.n]

PageNext == FeedDoc

SpecPage == PageInit /\ [][PageNext]_vars

(***************************************************************************)
(* The Search button pressed any number of times (SpecApp).  on_search is  *)
(* one step: what fetch_results does in it is one of the outcomes of a     *)
(* search.                                                                 *)
(***************************************************************************)
\* at most MaxSearches searches are run
MaxSearches == 3

\* status_var: the kind of the message, the number and the label it names
Status(kind, n, label) == [kind |-> kind, n |-> n, label |-> label]

\* the dict of labels of on_search
ResLabel(res) ==
    CASE res = "4k"   -> "4K"
      [] res = "1080" -> "1080p"
      [] res = "any"  -> "any resolution"
      [] OTHER        -> "requested"

\* table.insert("", "end", iid=str(idx), values=(...), tags=(info_hash,));
\* search is history: the search that inserted the row
TableRow(idx, row, search) ==
    [iid    |-> idx,
     values |-> [name     |-> row.name,
                 seeders  |-> row.seeders,
                 leechers |-> row.leechers,
                 size     |-> human_size(row.size)],
     tags   |-> row.info_hash,
     search |-> search]

\* what the query entry holds
Queries == {<<>>, <<" ">>, <<"d", "u", "n", "e">>}

\* the lists fetch_results returns: raw rows, the last list with a row whose
\* seeders are not a number
AppRaws ==
    {ShortList(<<<<StrV(Name1080), StrV(HashShort), IntV(3)>>>>),
     ShortList(<<<<StrV(Name1080), StrV(HashShort), IntV(3)>>,
                 <<StrV(Name4K), StrV(HashShort), StrV(<<"1", "0">>)>>>>),
     ShortList(<<<<StrV(Name720), StrV(HashShort), IntV(3)>>,
                 <<StrV(Name1080), StrV(HashShort), StrV(<<"1", "0">>)>>>>),
     OddList(<<<<StrV(Name1080), IntV(3), BigV(<<2, 0, 0, 0>>)>>,
               <<StrV(Name1080), StrV(<<"a", "b", "c">>), BigV(<<2, 0, 0, 0>>)>>>>)}

\* what fetch_results ends with: a non-empty list, [] or an exception
FetchOutcomes ==
    {RowsResult(rows) : rows \in AppRaws}
    \cup {EmptyResult,
          Raised("All HTML endpoints failed", Err("html", 3, 3, "movies_hd", "URLError")),
          Raised("HTTPException", Err("json", 1, 1, "movies_hd", "HTTPException"))}

\* the Search button: on_search
OnSearch(query, outcome, res) ==
    /\ searches < MaxSearches
    /\ UNCHANGED <<searchVars, parserVars, magnetVars, pureVars>>
    /\ IF Strip(query) = <<>>
       THEN /\ messagebox' = Some("Missing query")
            /\ UNCHANGED <<table, status_var, searches, filterVars>>
       ELSE /\ searches' = searches + 1
            /\ resolution_var' = res
            /\ IF outcome.kind = "error"
               THEN \* fetch_results raised: except Exception
                    /\ status_var' = Status("Error", 0, "")
                    /\ messagebox' = Some("Search failed")
                    /\ UNCHANGED <<table, raw, results>>
               ELSE LET r == filter_and_sort(outcome.rows, res) IN
                    /\ raw' = outcome.rows
                    /\ IF r.kind = "raise"
                       THEN \* filter_and_sort raised: except Exception
                            /\ status_var' = Status("Error", 0, "")
                            /\ messagebox' = Some("Search failed")
                            /\ UNCHANGED <<table, results>>
                       ELSE /\ results' = r
                            /\ table' = [idx \in 1..Len(r.rows) |->
                                            TableRow(idx, r.rows[idx], searches + 1)]
                            /\ status_var' =
                                  (IF r.rows # <<>>
                                   THEN Status("Found", Len(r.rows), "")
                                   ELSE Status("No results", 0, ResLabel(res)))
                            /\ UNCHANGED messagebox

AppInit == SearchInit /\ ParserIdle /\ FilterIdle /\ MagnetIdle /\ PureIdle /\ AppIdle

AppNext ==
    \E query \in Queries, outcome \in FetchOutcomes, res \in Resolutions :
        OnSearch(query, outcome, res)

SpecApp == AppInit /\ [][AppNext]_vars

Init == SearchInit /\ ParserIdle /\ FilterIdle /\ MagnetIdle /\ PureIdle /\ AppIdle

Next == SearchNext

Spec == Init /\ [][Next]_vars

\* the program goes on running (urlopen is called when the loops reach it),
\* and every request completes, with a response, an error or a timeout
SpecLive == Init /\ [][Next]_vars /\ WF_vars(UrlOpen) /\ WF_vars(Completes)

(***************************************************************************)
(* Claims about the search (fetch_results), checked under Spec.            *)
(***************************************************************************)
JsonRequests == {i \in 1..Len(requests) : requests[i].fetcher = "json"}

HtmlRequests == {i \in 1..Len(requests) : requests[i].fetcher = "html"}

JsonCombos(key) == Len(API_ENDPOINTS) * Len(Codes(key))

HtmlCombos(key) == Len(HTML_ENDPOINTS) * Len(Codes(key))

\* fetch_html_results has been called
HtmlInvoked == pc = "html" \/ HtmlRequests # {}

JsonYielded == yielded # None /\ yielded.at.fetcher = "json"

\* C1: once a JSON request has returned a non-empty array no HTML request is
\* issued in that search; and when every JSON combination has been attempted
\* without rows and without error (all of them empty), fetch_html_results is
\* invoked.
C1_JsonShortCircuitsHtml ==
    /\ JsonYielded => HtmlRequests = {} /\ pc = "done"
    /\ ( /\ Cardinality(JsonRequests) = JsonCombos(category_key)
         /\ ~JsonYielded
         /\ \A e \in 1..Len(API_ENDPOINTS) : <<"json", e>> \notin erred )
       => HtmlInvoked

\* C1 witness: a JSON response held rows after earlier JSON attempts had failed.
C1_Witness ==
    /\ pc = "done"
    /\ JsonYielded
    /\ Len(requests) > 2
    /\ erred # {}

\* C2: when no attempt of either fetcher yielded rows, the finished search
\* has failed if and only if some attempt ended in an error; with no error it
\* returned the empty list.
C2_FailsIffSomeError ==
    (pc = "done" /\ yielded = None) =>
        /\ result.kind = "error" <=> erred # {}
        /\ erred = {} => result = EmptyResult

\* C2 witness: every combination of both fetchers was attempted, only one HTML
\* attempt failed, and the search raised.
C2_Witness ==
    /\ pc = "done"
    /\ yielded = None
    /\ Len(requests) = JsonCombos(category_key) + HtmlCombos(category_key)
    /\ erred = {<<"html", 2>>}
    /\ result.kind = "error"

\* the requests of a whole search, endpoint-major and category-minor, the JSON
\* fetcher first
ComboOrder(fetcher, endpoints, key) ==
    [i \in 1..(Len(endpoints) * Len(Codes(key))) |->
        [fetcher |-> fetcher,
         ep  |-> ((i - 1) \div Len(Codes(key))) + 1,
         cat |-> Codes(key)[((i - 1) % Len(Codes(key))) + 1]]]

CanonicalOrder(key) ==
    ComboOrder("json", API_ENDPOINTS, key) \o ComboOrder("html", HTML_ENDPOINTS, key)

\* C3: the requests are issued in endpoint-major, category-minor order, and
\* after any attempt without rows, failed or empty, the next combination is
\* attempted: a search that ended without rows has attempted every combination.
C3_NextComboAfterEveryFailure ==
    /\ Len(requests) <= Len(CanonicalOrder(category_key))
    /\ requests = SubSeq(CanonicalOrder(category_key), 1, Len(requests))
    /\ (pc = "done" /\ yielded = None) => requests = CanonicalOrder(category_key)

\* C4: a search in which errors occurred on the attempts of one endpoint only
\* does not fail (stated for the searches that attempted every combination).
C4_SingleBadMirrorNeverFails ==
    ( /\ pc = "done"
      /\ Len(requests) = JsonCombos(category_key) + HtmlCombos(category_key)
      /\ Cardinality(erred) = 1 )
    => result.kind # "error"

\* C5: the first attempt whose response holds rows ends the search: it is the
\* last request issued, the search is over, and what is returned is exactly
\* that response's rows, whatever errors earlier attempts recorded.
C5_FirstYieldEndsSearch ==
    yielded # None =>
        /\ pc = "done"
        /\ requests[Len(requests)] = yielded.at
        /\ result = RowsResult(yielded.rows)

\* C5 witness: HTML rows are returned although JSON and HTML attempts failed before.
C5_Witness ==
    /\ yielded # None
    /\ yielded.at.fetcher = "html"
    /\ last_error # None
    /\ html_last_error # None
    /\ result.kind = "rows"

\* the requests sent so far: the completed ones and the one in flight
Sent == Len(requests) + Cardinality(inflight)

\* C19 (under SpecLive, where every request completes): a search that was
\* started ends, with a non-empty row list, an empty list or an error; no
\* (endpoint, category) combination is requested twice, so there are at most
\* |API endpoints| * |codes| + |HTML endpoints| * |codes| requests; and there
\* is never more than one request in flight.
C19_SearchTerminates ==
    /\ [](/\ Cardinality(inflight) <= 1
          /\ \A i, j \in 1..Len(requests) : requests[i] = requests[j] => i = j
          /\ \A r \in inflight : \A i \in 1..Len(requests) : requests[i] # r
          /\ Sent <= (Len(API_ENDPOINTS) + Len(HTML_ENDPOINTS)) * Len(Codes(category_key))
          /\ pc = "done" =>
                /\ inflight = {}
                /\ \/ result.kind = "rows" /\ result.rows # <<>>
                   \/ result.kind = "empty" /\ result.rows = <<>>
                   \/ result.kind = "error")
    /\ (pc \in {"json", "html"}) ~> (pc = "done")

\* a search of two category codes that sent every request it could and ended
\* with an error
C19_Witness ==
    /\ pc = "done"
    /\ category_key = "all_video"
    /\ Len(requests) = (Len(API_ENDPOINTS) + Len(HTML_ENDPOINTS)) * Len(Codes(category_key))
    /\ result.kind = "error"

(***************************************************************************)
(* Claims about the HTML row parser.                                       *)
(***************************************************************************)
\* 2 * 1024^3 bytes
TwoGiB == <<2, 0, 0, 0>>

\* C6 (under SpecRow): the events of one well-formed row (title anchor with
\* text N, magnet link magnet:?xt=urn:btih:H, description with "Size 2 GiB",
\* numeric cells S then L) yield exactly one row, with name N, info-hash H,
\* size 2 * 1024^3, seeders S and leechers L.
C6_WellFormedRowYieldsOneRow ==
    doc = <<>> =>
        parser.rows = <<[name      |-> given.name,
                         info_hash |-> given.hash,
                         seeders   |-> given.seeders,
                         leechers  |-> given.leechers,
                         size      |-> TwoGiB]>>

\* C6 witness: the row of the specification's example has been parsed.
C6_Witness ==
    /\ doc = <<>>
    /\ given.name = TitleText
    /\ given.seeders = 120
    /\ given.leechers = 5
    /\ Len(parser.rows) = 1

\* the info-hash each magnet link of the inputs resolves to (<<>>: none)
ExpectedHash(magnet) ==
    IF magnet = None THEN <<>>
    ELSE IF magnet.v = MagnetPlain THEN Hash1
    ELSE IF magnet.v = MagnetWithParams THEN Hash2
    ELSE IF magnet.v = MagnetShort THEN HashShort
    ELSE <<>>

\* C7 (under SpecParser): a row-end event of an open row emits exactly one
\* row if a non-empty name and a magnet link with a resolvable info-hash were
\* captured, with seeders and leechers the first and second numeric value or
\* 0, and emits nothing otherwise; every emitted row has a non-empty name and
\* a non-empty info-hash.
C7_RowEndEmitsIffComplete ==
    /\ closed # None =>
         LET complete == /\ closed.name # None
                         /\ closed.name.v # <<>>
                         /\ ExpectedHash(closed.magnet) # <<>>
         IN  /\ closed.emitted <=> complete
             /\ complete =>
                  parser.rows = Append(closed.before,
                     [name      |-> closed.name.v,
                      info_hash |-> ExpectedHash(closed.magnet),
                      seeders   |-> IF Len(closed.values) >= 1 THEN closed.values[1] ELSE 0,
                      leechers  |-> IF Len(closed.values) >= 2 THEN closed.values[2] ELSE 0,
                      size      |-> closed.size])
             /\ ~complete => parser.rows = closed.before
    /\ \A i \in 1..Len(parser.rows) :
         parser.rows[i].name # <<>> /\ parser.rows[i].info_hash # <<>>

\* C7 witness: a row with a name and no magnet link has just been dropped.
C7_Witness ==
    /\ closed # None
    /\ closed.name # None
    /\ closed.magnet = None
    /\ ~closed.emitted
    /\ parser.rows = <<>>

\* C16 (under SpecParser): for every finite sequence of tag-open, tag-close
\* and text events the parser never raises.
C16_ParserNeverRaises == raised = ""

\* C16, second part (under SpecPage): unbalanced markup costs a row only its
\* optional fields, so every row of the page for which a title text and a
\* magnet link with a resolvable info-hash were seen has been emitted once
\* the page is read.
C16_SeenRowsEmitted ==
    doc = <<>> => Len(parser.rows) = given.opened + 1

\* no closing tag, missing or extra, makes the parser raise: an exception
\* leaves handle_starttag or handle_data only
C16_RaisedByOpenOrText ==
    raised # "" =>
        /\ closed = None
        /\ parser.in_tr
        /\ raised \in {"AttributeError", "ValueError"}

\* C17 (under SpecPage): the first non-empty text after the start of the
\* title anchor is the name of the emitted row; later texts inside the same
\* anchor do not replace it.
C17_FirstTextIsName ==
    doc = <<>> => parser.rows[Len(parser.rows)].name = given.first

\* the text the title anchor captures first is the name for as long as no
\* other text follows inside the anchor, and the emitted row has the last
\* non-empty text of the anchor as its name
C17_LastTextIsName ==
    /\ doc = <<>> => parser.rows[Len(parser.rows)].name = given.last
    /\ Len(doc) = given.len - 5 => parser.current.name = Some(given.first)

SeedersGiven(row) ==
    CASE row.seeders.t = "int" -> row.seeders.n
      [] row.seeders.t = "str" /\ row.seeders.s = <<"1", "0">> -> 10
      [] row.seeders.t = "str" /\ row.seeders.s = <<"-", "5">> -> 0 - 5
      [] OTHER -> 0

\* the names that pass each resolution selector
PassingNames(res) ==
    CASE res = "1080" -> {Name1080}
      [] res = "4k"   -> {Name4K, Name2160, NameUHD}
      [] res = "any"  -> {Name1080, Name720, Name4K, Name2160, NameUHD}

\* the places of the input rows that meet the conditions of the filter
Survivors ==
    {i \in 1..Len(raw) :
        /\ raw[i].t = "dict"
        /\ raw[i].name.t = "str"
        /\ raw[i].name.s \in PassingNames(resolution_var)
        /\ raw[i].info_hash.t = "str"
        /\ raw[i].info_hash.s # <<>>}

\* the places (kept in leechers) of the returned records
Returned == {results.rows[k].leechers : k \in 1..Len(results.rows)}

\* C8: what filter_and_sort returns is the first 100 (or all, if fewer) of
\* the stable sort by seeders descending of the survivors: it has
\* min(100, number of survivors) records, each one a survivor with its own
\* seeders, each survivor at most once; seeders never increase along the
\* output; records with equal seeders stand in input order; and a survivor
\* that was dropped has no more seeders than any returned record, and where
\* it has as many it stood later in the input.
C8_Top100OfStableSort ==
    (results # None /\ results.kind = "ok") =>
        LET out == results.rows IN
        /\ Len(out) <= 100
        /\ Len(out) = (IF Cardinality(Survivors) < 100
                       THEN Cardinality(Survivors) ELSE 100)
        /\ Returned \subseteq Survivors
        /\ Cardinality(Returned) = Len(out)
        /\ \A k \in 1..Len(out) : out[k].seeders = SeedersGiven(raw[out[k].leechers])
        /\ \A k \in 1..(Len(out) - 1) :
              \/ out[k].seeders > out[k + 1].seeders
              \/ /\ out[k].seeders = out[k + 1].seeders
                 /\ out[k].leechers < out[k + 1].leechers
        /\ \A i \in Survivors \ Returned :
              LET last == out[Len(out)] IN
              \/ SeedersGiven(raw[i]) < last.seeders
              \/ SeedersGiven(raw[i]) = last.seeders /\ i > last.leechers

\* more than 100 survivors, cut to 100, with ties and with a reordering
C8_Witness ==
    /\ results # None
    /\ results.kind = "ok"
    /\ Cardinality(Survivors) > 100
    /\ Len(results.rows) = 100
    /\ results.rows[1].leechers # 1
    /\ \E k \in 1..99 : results.rows[k].seeders = results.rows[k + 1].seeders
    /\ \E k \in 1..99 : results.rows[k].seeders > results.rows[k + 1].seeders

\* C9: a row survives filter_and_sort if and only if its name is not empty,
\* its info-hash is present and its name passes the resolution selector
\* ("1080": contains 1080; "4k": contains 2160, 4k or uhd, in any case of
\* letters; "any": no condition); the survivor keeps its name and info-hash.
\* Survival is being returned, as long as the cap of 100 does not cut.
C9_SurvivesIffSelected ==
    (results # None /\ results.kind = "ok") =>
        /\ Returned \subseteq Survivors
        /\ Cardinality(Survivors) <= 100 => Returned = Survivors
        /\ \A k \in 1..Len(results.rows) :
              /\ results.rows[k].name = raw[results.rows[k].leechers].name.s
              /\ results.rows[k].info_hash = raw[results.rows[k].leechers].info_hash.s

\* "4k" keeps Example.Movie.4K and Example.Movie.2160p
C9_Witness ==
    /\ results # None
    /\ resolution_var = "4k"
    /\ Len(raw) = 2
    /\ raw[1].name.s = Name4K
    /\ raw[2].name.s = Name2160
    /\ Len(results.rows) = 2

\* C14: every record filter_and_sort returns has seeders, leechers and size
\* that are integers not below 0, whatever the input rows hold in these
\* fields, negative numbers included.
C14_CountsNeverNegative ==
    (results # None /\ results.kind = "ok") =>
        \A k \in 1..Len(results.rows) :
            /\ results.rows[k].seeders >= 0
            /\ results.rows[k].leechers >= 0
            /\ results.rows[k].size.t \in {"int", "big"}
            /\ results.rows[k].size.n >= 0

\* a row is well formed: a dict with a text name and counts int() accepts
WellFormed(row) ==
    /\ row.t = "dict"
    /\ row.name.t \in {"str", "missing"}
    /\ \A key \in {"seeders", "leechers", "size"} :
          IntOf(Get(row, key, IntV(0))).t # "raise"

\* C15: a malformed row of the raw list is dropped and never makes
\* filter_and_sort fail; the well-formed rows of the same list that meet the
\* conditions of the filter are still returned.
C15_MalformedRowDropped ==
    results # None =>
        /\ results.kind = "ok"
        /\ Cardinality(Survivors) <= 100 =>
              \A i \in Survivors : WellFormed(raw[i]) => i \in Returned
        /\ \A i \in Returned : WellFormed(raw[i])

\* a row whose name is null or missing is skipped, and a malformed row whose
\* name does not pass the selector is skipped before its counts are read
C15_SkippedBeforeConversion ==
    (results # None /\ results.kind = "raise") =>
        \E i \in 1..Len(raw) :
            /\ ~WellFormed(raw[i])
            /\ \/ raw[i].t # "dict"
               \/ raw[i].name.t = "int"
               \/ raw[i].name.s \in PassingNames(resolution_var)

(***************************************************************************)
(* Claims about build_magnet (SpecMagnet).                                 *)
(***************************************************************************)
MagnetHead == <<"m", "a", "g", "n", "e", "t", ":", "?", "x", "t", "=", "u", "r", "n", ":", "b", "t", "i", "h", ":">>

\* the name as the link carries it: "/", "&" and "%" as %XX, the space and
\* the letters, digits and dots as they are
RECURSIVE DnGiven(_)
DnGiven(name) ==
    IF name = <<>> THEN <<>>
    ELSE (CASE Head(name) = "/" -> <<"%", "2", "F">>
            [] Head(name) = "&" -> <<"%", "2", "6">>
            [] Head(name) = "%" -> <<"%", "2", "5">>
            [] OTHER -> <<Head(name)>>) \o DnGiven(Tail(name))

\* the four trackers in their declared order, ":" as %3A and "/" as it is
TrackerTail ==
    <<"&", "t", "r", "=", "u", "d", "p", "%", "3", "A", "/", "/", "t", "r",
    "a", "c", "k", "e", "r", ".", "o", "p", "e", "n", "t", "r", "a", "c",
    "k", "r", ".", "o", "r", "g", "%", "3", "A", "1", "3", "3", "7", "/",
    "a", "n", "n", "o", "u", "n", "c", "e", "&", "t", "r", "=", "u", "d",
    "p", "%", "3", "A", "/", "/", "o", "p", "e", "n", ".", "d", "e", "m",
    "o", "n", "i", "i", ".", "c", "o", "m", "%", "3", "A", "1", "3", "3",
    "7", "/", "a", "n", "n", "o", "u", "n", "c", "e", "&", "t", "r", "=",
    "u", "d", "p", "%", "3", "A", "/", "/", "t", "r", "a", "c", "k", "e",
    "r", ".", "c", "o", "p", "p", "e", "r", "s", "u", "r", "f", "e", "r",
    ".", "t", "k", "%", "3", "A", "6", "9", "6", "9", "/", "a", "n", "n",
    "o", "u", "n", "c", "e", "&", "t", "r", "=", "u", "d", "p", "%", "3",
    "A", "/", "/", "t", "r", "a", "c", "k", "e", "r", ".", "l", "e", "e",
    "c", "h", "e", "r", "s", "-", "p", "a", "r", "a", "d", "i", "s", "e",
    ".", "o", "r", "g", "%", "3", "A", "6", "9", "6", "9", "/", "a", "n",
    "n", "o", "u", "n", "c", "e">>

BtihHits == {i \in 1..Len(btih_call.fields) : btih_call.fields[i].hit}

\* C11: parse_btih_from_magnet returns None for a string that does not
\* start with "magnet:?"; for one that does, it returns what follows
\* "urn:btih:" in the first xt value that starts with "urn:btih:", passing
\* over xt values of other namespaces, and None when there is no such value.
C11_FirstBtihOrNone ==
    btih_call # None =>
        IF btih_call.head # <<"m", "a", "g", "n", "e", "t", ":", "?">> \/ BtihHits = {}
        THEN btih_ret = None
        ELSE LET first == CHOOSE i \in BtihHits : \A j \in BtihHits : i <= j
             IN  btih_ret = [kind |-> "Some", v |-> btih_call.fields[first].hash]

\* an xt value of another namespace stands before the btih one
C11_Witness ==
    /\ btih_call # None
    /\ btih_call.head = MagnetScheme
    /\ Len(btih_call.fields) = 2
    /\ ~btih_call.fields[1].hit
    /\ StartsWith(btih_call.fields[1].text, <<"x", "t", "=", "u", "r", "n", ":">>)
    /\ btih_call.fields[2].hit
    /\ btih_ret = [kind |-> "Some", v |-> HashShort]

(***************************************************************************)
(* Claims about parse_size_bytes (SpecSize).                               *)
(***************************************************************************)
\* n * 1024^k
TimesScale(n, k) == IF n = <<>> THEN <<>> ELSE n \o [i \in 1..k |-> 0]

\* C12: for a text with "Size <n> <unit>", n an integer and the unit one of
\* B, KiB, KB, MiB, MB, GiB, GB, TiB, TB in any case of letters,
\* parse_size_bytes returns n * 1024^k, k the magnitude of the unit, the
\* same for both spellings of a magnitude; for a text without the pattern it
\* returns 0.
C12_SizeTimesScale ==
    size_call # None =>
        /\ (size_call.pattern /\ size_call.frac = <<>>) =>
              size_ret = TimesScale(size_call.n, size_call.k)
        /\ ~size_call.pattern => size_ret = <<>>

\* the same for the numbers below 2^53 only
C12_BelowTwoTo53 ==
    size_call # None =>
        /\ (size_call.pattern /\ size_call.frac = <<>> /\ Len(size_call.n) < 6) =>
              size_ret = TimesScale(size_call.n, size_call.k)
        /\ ~size_call.pattern => size_ret = <<>>

(***************************************************************************)
(* More claims about the search, checked under Spec.                       *)
(***************************************************************************)
\* C13: when a search fails, the error it raises carries the error of the
\* latest attempt of the whole search that ended in one: an HTML attempt's
\* if any HTML attempt failed, otherwise a JSON attempt's; never an earlier
\* error when a later attempt failed too.
C13_FailureCarriesLatestError ==
    (result # None /\ result.kind = "error") =>
        /\ latest # None
        /\ result.cause = latest
        /\ result.cause.fetcher =
              (IF \E e \in 1..Len(HTML_ENDPOINTS) : <<"html", e>> \in erred
               THEN "html" ELSE "json")

\* a failed search in which attempts of both fetchers, on several endpoints,
\* ended in an error
C13_Witness ==
    /\ result # None
    /\ result.kind = "error"
    /\ last_error # None
    /\ result.cause.fetcher = "html"
    /\ Cardinality(erred) >= 4

(***************************************************************************)
(* Claims about the window (SpecApp).                                      *)
(***************************************************************************)
\* C20: once a search has finished, with rows, with no rows or with an
\* error, the table holds rows of that search only: no row of an earlier
\* search is left in it.
C20_TableHoldsLatestSearchOnly ==
    \A i \in 1..Len(table) : table[i].search = searches

\* the rows of the table are never of two searches, and after a search that
\* did not fail they are that search's results, in order
C20_ReplacedUnlessFailed ==
    /\ \A i, j \in 1..Len(table) : table[i].search = table[j].search
    /\ status_var.kind \in {"Found", "No results"} =>
         /\ Len(table) = Len(results.rows)
         /\ \A i \in 1..Len(table) :
               /\ table[i].search = searches
               /\ table[i].iid = i
               /\ table[i].values.name = results.rows[i].name
               /\ table[i].tags = results.rows[i].info_hash

====
